---- MODULE Spec2Model ----
(***************************************************************************)
(* CrowdLight transmitter: the E1.31 frame validator                       *)
(* (E131Handler::parsePacket), the HC-12 radio framer                      *)
(* (RadioLink::sendDmxPacket) and the producer loop (networkLoop) that     *)
(* ties them to the shared snapshot; the configuration load                 *)
(* (ConfigManager::loadConfig), the menu (DisplayMgr::handleButtonPress)   *)
(* and the display loop (displayLoop, DisplayMgr::render); the logger      *)
(* (Logger::log, its statistics, its error buffer and its mutex).          *)
(*                                                                         *)
(* Spec, RadioSpec: the data plane.  UiSpec: boot, menu and slideshow.     *)
(* ShareSpec, EditSpec, RenderSpec: the tasks interleaved over the shared  *)
(* snapshot, the live configuration and the screen state.  LogSpec: the    *)
(* logger called by one task.  LogTaskSpec, LogFairSpec: by two tasks.     *)
(*                                                                         *)
(* Byte buffers are sequences; the C index i is position i+1 (see At).     *)
(***************************************************************************)
EXTENDS Integers, Sequences, FiniteSets, TLC

(***************************************************************************)
(* Program constants (include/Config.h)                                    *)
(***************************************************************************)
E131_HEADER_SIZE == 126
DMX_MAX_CHANNELS == 512
E131_UNIVERSE_OFFSET == 113
E131_LENGTH_OFFSET == 123
DMX_STARTCODE == 0
E131_MAX_PACKET_SIZE == E131_HEADER_SIZE + DMX_MAX_CHANNELS
CHAN_PER_LED == 3
DEFAULT_UNIVERSE == 129
RADIO_START_BYTE == 170
RADIO_MAX_LENGTH == 255
LOOP_DELAY_MS == 1
LINK_DOWN_DELAY_MS == 100
MIN_UNIVERSE == 1
MAX_UNIVERSE == 63999
MIN_NUM_LEDS == 0
MAX_NUM_LEDS == 50
STATUS_SCREEN_LENGTH_MS == 3000
BTN_UP == 20
BTN_DOWN == 21
BTN_LEFT == 22
BTN_RIGHT == 23
BTN_SEL == 24

\* displayLoop (src/main.cpp): its tick and the window of STATUS_ACTIVE
DISPLAY_DELAY_MS == 100
ACTIVE_WINDOW_MS == 2500

\* enum ScreenState (lib/DisplayMgr/DisplayMgr.h)
SCREEN_BOOT == 0
SCREEN_STATUS_IP == 1
SCREEN_STATUS_E131 == 2
SCREEN_STATUS_SENSORS == 3
SCREEN_MENU_MAIN == 4
SCREEN_EDIT_UNIVERSE == 5
SCREEN_EDIT_NUM_LEDS == 6

\* enum E131Status (lib/DisplayMgr/DisplayMgr.h)
STATUS_DISCONNECTED == 0
STATUS_CONNECTED == 1
STATUS_ACTIVE == 2
STATUS_IDLE == 3

\* the last index of the main menu (handleButtonPress: min(2, _menuIndex + 1))
MENU_LAST_INDEX == 2

\* Logger levels (lib/Logger/Logger.h)
LOG_LEVEL_NONE == 0
LOG_LEVEL_ERROR == 1
LOG_LEVEL_WARN == 2
LOG_LEVEL_INFO == 3
LOG_LEVEL_DEBUG == 4
LOG_LEVEL_VERBOSE == 5

\* LOG_LEVEL as Logger.cpp sees it: the file includes Logger.h only, which
\* defines it when Config.h has not
LOG_LEVEL == LOG_LEVEL_INFO
LOG_ERROR_BUFFER_SIZE == 50

\* sizeof(ErrorLogEntry::message) - 1: the characters of a message an entry
\* of the error buffer keeps
ENTRY_MESSAGE_CHARS == 63

(***************************************************************************)
(* Bounds of the model                                                     *)
(***************************************************************************)
\* loop iterations of networkLoop explored in one behaviour
MaxIters == 2
\* calls of sendDmxPacket explored in one behaviour of RadioSpec
MaxSends == 2
\* payload bytes, counted from the front, a link fault may hit (the last
\* payload byte and the marker can always be hit)
MaxFlipByte == 3
\* button presses explored in one behaviour
MaxPresses == 6
\* runs of displayLoop iterations explored in one behaviour
MaxRuns == 2
\* steps of the logger's callers explored in one behaviour
MaxLogOps == 3
\* logger calls the tasks make in one behaviour
MaxCalls == 2

(***************************************************************************)
(* Integer helpers: the C conversions                                      *)
(***************************************************************************)
Min(a, b) == IF a < b THEN a ELSE b
Max(a, b) == IF a > b THEN a ELSE b

\* conversion of an int to uint16_t / uint8_t
U16(x) == x % 65536
U8(x) == x % 256

\* a ^ b on non-negative integers, bit by bit
RECURSIVE BitXorBits(_, _)
BitXorBits(a, b) ==
    IF a = 0 THEN b
    ELSE IF b = 0 THEN a
    ELSE (((a % 2) + (b % 2)) % 2) + 2 * BitXorBits(a \div 2, b \div 2)

\* a ^ b for two bytes, tabulated
ByteXorTable == [a \in 0..255 |-> [b \in 0..255 |-> BitXorBits(a, b)]]
BitXor(a, b) == ByteXorTable[a][b]

\* buf[i] of a C array held as a sequence
At(buf, i) == buf[i + 1]

\* n copies of the byte v
Fill(n, v) == [i \in 1..n |-> v]

\* memcpy(dst, src + from, n): the first n bytes of dst are replaced by
\* src[from .. from+n-1], the rest of dst is kept
Memcpy(dst, src, from, n) ==
    SubSeq(src, from + 1, from + n) \o SubSeq(dst, n + 1, Len(dst))

(***************************************************************************)
(* Datagrams on the wire.  A datagram is described by its received size    *)
(* and the header fields a sender sets; DatagramByte gives its bytes.      *)
(***************************************************************************)
NoPacket == [size |-> 0, uni |-> 0, sc |-> 0, decl |-> 0, fill |-> 0]

\* byte i of datagram d (0 <= i < d.size): the universe and the declared
\* length are big-endian, channel k carries (fill + k) mod 256, every other
\* header byte carries a filler that depends on its position
DatagramByte(d, i) ==
    IF i = E131_UNIVERSE_OFFSET THEN d.uni \div 256
    ELSE IF i = E131_UNIVERSE_OFFSET + 1 THEN d.uni % 256
    ELSE IF i = E131_LENGTH_OFFSET THEN d.decl \div 256
    ELSE IF i = E131_LENGTH_OFFSET + 1 THEN d.decl % 256
    ELSE IF i = E131_LENGTH_OFFSET + 2 THEN d.sc
    ELSE IF i >= E131_HEADER_SIZE THEN (d.fill + (i - E131_HEADER_SIZE)) % 256
    ELSE (7 * i + 16) % 256

\* datagrams shorter than the header
ShortDatagrams ==
    {[size |-> s, uni |-> DEFAULT_UNIVERSE, sc |-> DMX_STARTCODE, decl |-> 11, fill |-> 1] :
        s \in {1, 125}}

\* datagrams with a full header, start code 0, for universe 129: every
\* combination of received size and declared length
DataDatagrams ==
    {[size |-> s, uni |-> DEFAULT_UNIVERSE, sc |-> DMX_STARTCODE, decl |-> l, fill |-> 1] :
        s \in {126, 136, 640}, l \in {0, 1, 11, 514}}
    \cup {[size |-> 640, uni |-> DEFAULT_UNIVERSE, sc |-> DMX_STARTCODE, decl |-> 513, fill |-> 1]}
    \cup {[size |-> 136, uni |-> DEFAULT_UNIVERSE, sc |-> DMX_STARTCODE, decl |-> 11, fill |-> 101]}

\* datagrams for universe 33024 (129 with its two bytes swapped) and
\* datagrams with a non-zero start code
OtherDatagrams ==
    {[size |-> 136, uni |-> u, sc |-> c, decl |-> 11, fill |-> 1] :
        u \in {DEFAULT_UNIVERSE, 33024}, c \in {DMX_STARTCODE, 221}}

Datagrams == ShortDatagrams \cup DataDatagrams \cup OtherDatagrams

\* the bytes of each datagram, as received
DatagramBytes == [d \in Datagrams |-> [i \in 1..d.size |-> DatagramByte(d, i - 1)]]

(***************************************************************************)
(* EthernetUDP::read(buffer, n): the first n bytes of the pending datagram *)
(* overwrite buffer[0..n-1]; the rest of the buffer keeps what it held.    *)
(***************************************************************************)
UdpRead(buf, d, n) == Memcpy(buf, DatagramBytes[d], 0, n)

(***************************************************************************)
(* Log calls, as the arguments given to Logger::log.  The LOG_VERBOSE_TAG  *)
(* calls are left out: Logger::log drops them at every runtime level the   *)
(* running program sets (see the logger below).                            *)
(***************************************************************************)
LogTooSmall == [level |-> LOG_LEVEL_WARN, msg |-> "Packet too small"]
\* the mismatch message logged as an error
LogUniverseMismatchAsError == [level |-> LOG_LEVEL_ERROR, msg |-> "Universe mismatch"]
LogUniverseMismatch == [level |-> LOG_LEVEL_DEBUG, msg |-> "Universe mismatch"]
LogBadStartCode == [level |-> LOG_LEVEL_WARN, msg |-> "Invalid DMX start code"]
LogTooLarge == [level |-> LOG_LEVEL_ERROR, msg |-> "Packet too large"]

(***************************************************************************)
(* E131Handler::parsePacket.  buf is _packetBuffer, out the caller's       *)
(* dmxOutputBuffer, universe is _universe, d the pending datagram          *)
(* (NoPacket: _udp.parsePacket() returns 0).  The result carries the new   *)
(* _packetBuffer, the new output buffer, the return value, the log calls   *)
(* made, and reads: one more than the highest index of _packetBuffer the   *)
(* call read (0 when it read none).                                        *)
(***************************************************************************)
ParseReject(buf, out, log, reads) ==
    [buf |-> buf, out |-> out, ret |-> 0, log |-> log, reads |-> reads]

\* ParseExtract with the start code slot counted as a channel: no - 1
ParseExtractCountsStartCode(buf, out) ==
    LET declared == (At(buf, E131_LENGTH_OFFSET) * 256) + At(buf, E131_LENGTH_OFFSET + 1)
        dmxLen   == IF declared > DMX_MAX_CHANNELS THEN DMX_MAX_CHANNELS ELSE declared
    IN [buf |-> buf,
        out |-> Memcpy(out, buf, E131_HEADER_SIZE, dmxLen),
        ret |-> dmxLen,
        log |-> <<>>,
        reads |-> E131_HEADER_SIZE + dmxLen]

\* the branch of parsePacket taken when size, universe and start code pass
ParseExtract(buf, out) ==
    LET declared == (At(buf, E131_LENGTH_OFFSET) * 256) + At(buf, E131_LENGTH_OFFSET + 1)
        raw      == U16(declared - 1)
        dmxLen   == IF raw > DMX_MAX_CHANNELS THEN DMX_MAX_CHANNELS ELSE raw
    IN [buf |-> buf,
        out |-> Memcpy(out, buf, E131_HEADER_SIZE, dmxLen),
        ret |-> dmxLen,
        log |-> <<>>,
        reads |-> E131_HEADER_SIZE + dmxLen]

\* the start-code check and what follows it
ParseStartCode(buf, out) ==
    IF At(buf, E131_LENGTH_OFFSET + 2) # DMX_STARTCODE
    THEN ParseReject(buf, out, <<LogBadStartCode>>, E131_LENGTH_OFFSET + 3)
    ELSE ParseExtract(buf, out)

\* ParseUniverse with the two universe bytes read low byte first
ParseUniverseLittleEndian(buf, out, universe) ==
    LET rxUniverse == U16((At(buf, E131_UNIVERSE_OFFSET + 1) * 256)
                          + At(buf, E131_UNIVERSE_OFFSET))
    IN IF rxUniverse # universe
       THEN ParseReject(buf, out, <<LogUniverseMismatch>>, E131_UNIVERSE_OFFSET + 2)
       ELSE ParseStartCode(buf, out)

\* ParseUniverse with the start code checked before the universe
ParseStartCodeFirst(buf, out, universe) ==
    LET rxUniverse == U16((At(buf, E131_UNIVERSE_OFFSET) * 256)
                          + At(buf, E131_UNIVERSE_OFFSET + 1))
    IN IF At(buf, E131_LENGTH_OFFSET + 2) # DMX_STARTCODE
       THEN ParseReject(buf, out, <<LogBadStartCode>>, E131_LENGTH_OFFSET + 3)
       ELSE IF rxUniverse # universe
       THEN ParseReject(buf, out, <<LogUniverseMismatch>>, E131_UNIVERSE_OFFSET + 2)
       ELSE ParseExtract(buf, out)

\* the universe check and what follows it
ParseUniverse(buf, out, universe) ==
    LET rxUniverse == U16((At(buf, E131_UNIVERSE_OFFSET) * 256)
                          + At(buf, E131_UNIVERSE_OFFSET + 1))
    IN IF rxUniverse # universe
       THEN ParseReject(buf, out, <<LogUniverseMismatch>>, E131_UNIVERSE_OFFSET + 2)
       ELSE ParseStartCode(buf, out)

\* ParseSize with the bound one byte short: a 125-byte datagram passes
ParseSizeOffByOne(buf, out, universe, packetSize) ==
    IF packetSize < E131_HEADER_SIZE - 1
    THEN ParseReject(buf, out, <<LogTooSmall>>, 0)
    ELSE ParseUniverse(buf, out, universe)

\* the size check and what follows it
ParseSize(buf, out, universe, packetSize) ==
    IF packetSize < E131_HEADER_SIZE
    THEN ParseReject(buf, out, <<LogTooSmall>>, 0)
    ELSE ParseUniverse(buf, out, universe)

ParsePacket(buf, out, universe, d) ==
    LET packetSize == d.size
    IN IF packetSize > 0
       THEN ParseSize(UdpRead(buf, d, Min(packetSize, E131_MAX_PACKET_SIZE)),
                      out, universe, packetSize)
       ELSE ParseReject(buf, out, <<>>, 0)

(***************************************************************************)
(* RadioLink::sendDmxPacket: the bytes it writes to the serial stream.     *)
(***************************************************************************)
\* the for loop over i = from .. to-1 with its running checksum:
\* checksum ^= dmxData[i].  The iterations are run in two halves, the second
\* starting from the checksum the first ends with.
RECURSIVE ChecksumLoop(_, _, _, _)
ChecksumLoop(dmxData, from, to, checksum) ==
    IF from >= to THEN checksum
    ELSE IF to = from + 1 THEN BitXor(checksum, At(dmxData, from))
    ELSE LET mid == (from + to) \div 2
         IN CHOOSE c \in {ChecksumLoop(dmxData, mid, to, half) :
                             half \in {ChecksumLoop(dmxData, from, mid, checksum)}} : TRUE

\* RadioFrame with the checksum started at 0: the marker is left out of it
RadioFrameSeedZero(dmxData, length) ==
    <<RADIO_START_BYTE, U8(length)>>
    \o SubSeq(dmxData, 1, length)
    \o <<ChecksumLoop(dmxData, 0, length, 0)>>

\* RadioFrame with the checksum loop ending one byte early
RadioFrameSkipsLast(dmxData, length) ==
    <<RADIO_START_BYTE, U8(length)>>
    \o SubSeq(dmxData, 1, length)
    \o <<ChecksumLoop(dmxData, 0, length - 1, RADIO_START_BYTE)>>

\* RadioFrame with the checksum started at 0xAB instead of the marker
RadioFrameSeedTypo(dmxData, length) ==
    <<RADIO_START_BYTE, U8(length)>>
    \o SubSeq(dmxData, 1, length)
    \o <<ChecksumLoop(dmxData, 0, length, RADIO_START_BYTE + 1)>>

\* the bytes written for a payload that is not too large
RadioFrame(dmxData, length) ==
    <<RADIO_START_BYTE, U8(length)>>
    \o SubSeq(dmxData, 1, length)
    \o <<ChecksumLoop(dmxData, 0, length, RADIO_START_BYTE)>>

\* RadioAccepts with the bound off by one: 256 bytes pass
RadioAcceptsOffByOne(length) == ~(length > RADIO_MAX_LENGTH + 1)

\* RadioAccepts with the payload of MAX_NUM_LEDS LEDs already too large
RadioAcceptsBelowMaxLeds(length) == length < CHAN_PER_LED * MAX_NUM_LEDS

\* the length check in front of the writes
RadioAccepts(length) == ~(length > RADIO_MAX_LENGTH)

SendDmxPacket(dmxData, length) ==
    IF RadioAccepts(length)
    THEN [bytes |-> RadioFrame(dmxData, length), log |-> <<>>]
    ELSE [bytes |-> <<>>, log |-> <<LogTooLarge>>]

(***************************************************************************)
(* networkLoop's bytesToSend (src/main.cpp): int bytesToSend =             *)
(* CHAN_PER_LED * deviceConfig.numLeds, lowered to len when it exceeds it, *)
(* then converted to the uint16_t length of sendDmxPacket.  The product of *)
(* an int and a uint16_t is an int of at most 196605: it does not wrap.    *)
(***************************************************************************)
\* BytesToSend without the cap at the validated length
BytesToSendUncapped(numLeds, len) == U16(CHAN_PER_LED * numLeds)

BytesToSend(numLeds, len) ==
    LET bytesToSend == CHAN_PER_LED * numLeds
    IN U16(IF bytesToSend > len THEN len ELSE bytesToSend)

(***************************************************************************)
(* E131Handler::checkHardware                                              *)
(***************************************************************************)
\* CheckHardware that looks at the chip only, not at the cable
CheckHardwareIgnoresLink(hardwareOk, linkOk) == hardwareOk

CheckHardware(hardwareOk, linkOk) == hardwareOk /\ linkOk

LogHardwareFailure == [level |-> LOG_LEVEL_ERROR, msg |-> "Hardware failure detected"]
LogLinkUp == [level |-> LOG_LEVEL_INFO, msg |-> "Link UP - cable connected"]
LogLinkDown == [level |-> LOG_LEVEL_WARN, msg |-> "Link DOWN - cable disconnected"]

\* the whole call: last is the pair of statics lastHardwareOk and
\* lastLinkOk; the result carries the return value, the statics after the
\* call and the log calls made on a change of status
CheckHardwareCall(last, hardwareOk, linkOk) ==
    [ret |-> CheckHardware(hardwareOk, linkOk),
     last |-> [hardwareOk |-> hardwareOk, linkOk |-> linkOk],
     log |-> (IF hardwareOk # last.hardwareOk /\ ~hardwareOk
              THEN <<LogHardwareFailure>> ELSE <<>>)
             \o (IF linkOk # last.linkOk
                 THEN IF linkOk THEN <<LogLinkUp>> ELSE <<LogLinkDown>>
                 ELSE <<>>)]

(***************************************************************************)
(* E131Handler::setUniverse: the new value of _universe                    *)
(***************************************************************************)
SetUniverse(current, universe) == IF current # universe THEN universe ELSE current

(***************************************************************************)
(* ConfigManager::loadConfig.  config is the DeviceConfig passed by         *)
(* reference, ret what nvs_get_blob returns, blob the stored bytes it      *)
(* copies into config when it returns ESP_OK.  The result carries the      *)
(* configuration after the call, the configurations passed to saveConfig   *)
(* during the call, and the log calls made.                                *)
(***************************************************************************)
DefaultIp == <<192, 168, 0, 100>>

LogConfigNotFound == [level |-> LOG_LEVEL_WARN, msg |-> "Config not found, loading defaults"]
LogConfigReadError == [level |-> LOG_LEVEL_ERROR, msg |-> "Error reading config blob"]

\* LoadConfig with the defaults also saved when the read fails
LoadConfigSavesOnError(config, ret, blob) ==
    IF ret # "ESP_OK"
    THEN LET defaults == [config EXCEPT !.universe = DEFAULT_UNIVERSE,
                                        !.useDhcp = FALSE,
                                        !.ipAddress = DefaultIp]
         IN [config |-> defaults, saved |-> <<defaults>>, log |-> <<LogConfigNotFound>>]
    ELSE [config |-> blob, saved |-> <<>>, log |-> <<>>]

LoadConfig(config, ret, blob) ==
    IF ret = "ESP_ERR_NVS_NOT_FOUND"
    THEN LET defaults == [config EXCEPT !.universe = DEFAULT_UNIVERSE,
                                        !.useDhcp = FALSE,
                                        !.ipAddress = DefaultIp]
         IN [config |-> defaults, saved |-> <<defaults>>, log |-> <<LogConfigNotFound>>]
    ELSE IF ret # "ESP_OK"
    THEN [config |-> config, saved |-> <<>>, log |-> <<LogConfigReadError>>]
    ELSE [config |-> blob, saved |-> <<>>, log |-> <<>>]

(***************************************************************************)
(* saveConfigCallback (src/main.cpp): configMgr.saveConfig(cfg), then      *)
(* eth.setUniverse(cfg.universe).  The result carries the configurations   *)
(* passed to saveConfig and the new E131Handler::_universe.                *)
(***************************************************************************)
\* SaveConfigCallback without the push of the universe to the validator
SaveConfigCallbackNoPush(cfg, universe) ==
    [saved |-> <<cfg>>, universe |-> universe]

SaveConfigCallback(cfg, universe) ==
    [saved |-> <<cfg>>, universe |-> SetUniverse(universe, cfg.universe)]

(***************************************************************************)
(* DisplayMgr::handleButtonPress.  state is _currentState, menuIndex       *)
(* _menuIndex, config the DeviceConfig passed by reference, universe       *)
(* E131Handler::_universe (reached through the save callback).  Every      *)
(* branch gives the five of them after the call, and the configurations    *)
(* passed to saveConfig.                                                   *)
(***************************************************************************)
UiResult(state, menuIndex, config, universe, saved) ==
    [state |-> state, menuIndex |-> menuIndex, config |-> config,
     universe |-> universe, saved |-> saved]

\* 1. any button interrupts the slideshow
PressOnStatus(config, universe) ==
    UiResult(SCREEN_MENU_MAIN, 0, config, universe, <<>>)

\* the switch on _menuIndex of a Select in the main menu
MenuSelect(state, menuIndex) ==
    CASE menuIndex = 0 -> SCREEN_STATUS_IP
      [] menuIndex = 1 -> SCREEN_EDIT_UNIVERSE
      [] menuIndex = 2 -> SCREEN_EDIT_NUM_LEDS
      [] OTHER -> state

\* MenuMove that wraps around at both ends
MenuMoveWraps(button, menuIndex) ==
    LET up   == IF button = BTN_UP THEN (menuIndex + MENU_LAST_INDEX) % (MENU_LAST_INDEX + 1)
                ELSE menuIndex
        down == IF button = BTN_DOWN THEN (up + 1) % (MENU_LAST_INDEX + 1) ELSE up
    IN down

\* the main menu's two ifs on BTN_UP and BTN_DOWN: the new _menuIndex
MenuMove(button, menuIndex) ==
    LET up   == IF button = BTN_UP THEN Max(0, menuIndex - 1) ELSE menuIndex
        down == IF button = BTN_DOWN THEN Min(MENU_LAST_INDEX, up + 1) ELSE up
    IN down

\* PressOnMenu with the two edit screens swapped
PressOnMenuSwapped(button, state, menuIndex, config, universe) ==
    LET up   == IF button = BTN_UP THEN Max(0, menuIndex - 1) ELSE menuIndex
        down == IF button = BTN_DOWN THEN Min(MENU_LAST_INDEX, up + 1) ELSE up
        swapped == CASE down = 1 -> SCREEN_EDIT_NUM_LEDS
                     [] down = 2 -> SCREEN_EDIT_UNIVERSE
                     [] OTHER -> MenuSelect(state, down)
        next == IF button = BTN_SEL THEN swapped ELSE state
    IN UiResult(next, down, config, universe, <<>>)

\* 2. main menu
PressOnMenu(button, state, menuIndex, config, universe) ==
    LET down == MenuMove(button, menuIndex)
        next == IF button = BTN_SEL THEN MenuSelect(state, down) ELSE state
    IN UiResult(next, down, config, universe, <<>>)

\* EditUp with the bound tested with <= : one step past the maximum
EditUpOffByOne(state, config) ==
    IF state = SCREEN_EDIT_UNIVERSE
    THEN IF config.universe <= MAX_UNIVERSE
         THEN [config EXCEPT !.universe = U16(@ + 1)] ELSE config
    ELSE IF config.numLeds <= MAX_NUM_LEDS
         THEN [config EXCEPT !.numLeds = U16(@ + 1)] ELSE config

\* case BTN_UP of an edit screen; target is &config.universe on the
\* universe screen and &config.numLeds on the LED-count screen
EditUp(state, config) ==
    IF state = SCREEN_EDIT_UNIVERSE
    THEN IF config.universe < MAX_UNIVERSE
         THEN [config EXCEPT !.universe = U16(@ + 1)] ELSE config
    ELSE IF config.numLeds < MAX_NUM_LEDS
         THEN [config EXCEPT !.numLeds = U16(@ + 1)] ELSE config

\* case BTN_DOWN of an edit screen
EditDown(state, config) ==
    IF state = SCREEN_EDIT_UNIVERSE
    THEN IF config.universe > MIN_UNIVERSE
         THEN [config EXCEPT !.universe = U16(@ - 1)] ELSE config
    ELSE IF config.numLeds > MIN_NUM_LEDS
         THEN [config EXCEPT !.numLeds = U16(@ - 1)] ELSE config

\* PressOnEdit with the break of case BTN_RIGHT missing: Right falls
\* through to the commit of case BTN_SEL
PressOnEditRightFallsThrough(button, state, menuIndex, config, universe) ==
    CASE button = BTN_UP ->
            UiResult(state, menuIndex, EditUp(state, config), universe, <<>>)
      [] button = BTN_DOWN ->
            UiResult(state, menuIndex, EditDown(state, config), universe, <<>>)
      [] button \in {BTN_RIGHT, BTN_SEL} ->
            LET cb == SaveConfigCallback(config, universe)
            IN UiResult(SCREEN_MENU_MAIN, menuIndex, config, cb.universe, cb.saved)
      [] OTHER ->
            UiResult(state, menuIndex, config, universe, <<>>)

\* 3. edit screens
PressOnEdit(button, state, menuIndex, config, universe) ==
    CASE button = BTN_UP ->
            UiResult(state, menuIndex, EditUp(state, config), universe, <<>>)
      [] button = BTN_DOWN ->
            UiResult(state, menuIndex, EditDown(state, config), universe, <<>>)
      [] button = BTN_SEL ->
            LET cb == SaveConfigCallback(config, universe)
            IN UiResult(SCREEN_MENU_MAIN, menuIndex, config, cb.universe, cb.saved)
      [] OTHER ->
            UiResult(state, menuIndex, config, universe, <<>>)

\* HandleButtonPress without the return that ends the slideshow branch: the
\* press that opens the menu is then handled as a menu press too
HandleButtonPressFallsThrough(button, state, menuIndex, config, universe) ==
    IF state <= SCREEN_STATUS_SENSORS
    THEN PressOnMenu(button, SCREEN_MENU_MAIN, 0, config, universe)
    ELSE IF state = SCREEN_MENU_MAIN
    THEN PressOnMenu(button, state, menuIndex, config, universe)
    ELSE IF state = SCREEN_EDIT_UNIVERSE \/ state = SCREEN_EDIT_NUM_LEDS
    THEN PressOnEdit(button, state, menuIndex, config, universe)
    ELSE UiResult(state, menuIndex, config, universe, <<>>)

HandleButtonPress(button, state, menuIndex, config, universe) ==
    IF state <= SCREEN_STATUS_SENSORS
    THEN PressOnStatus(config, universe)
    ELSE IF state = SCREEN_MENU_MAIN
    THEN PressOnMenu(button, state, menuIndex, config, universe)
    ELSE IF state = SCREEN_EDIT_UNIVERSE \/ state = SCREEN_EDIT_NUM_LEDS
    THEN PressOnEdit(button, state, menuIndex, config, universe)
    ELSE UiResult(state, menuIndex, config, universe, <<>>)

(***************************************************************************)
(* displayLoop (src/main.cpp) and DisplayMgr::render                       *)
(***************************************************************************)
\* t - since on unsigned long, for since <= t: millis() wraps after 49 days,
\* far beyond the times explored
Elapsed(t, since) == t - since

\* SlideshowLogic that advances as soon as the interval has elapsed
SlideshowLogicAtInterval(state, last, t, intervalMs) ==
    IF Elapsed(t, last) >= intervalMs
    THEN LET next == state + 1
         IN [state |-> IF next > SCREEN_STATUS_SENSORS THEN SCREEN_STATUS_IP ELSE next,
             last |-> t]
    ELSE [state |-> state, last |-> last]

\* DisplayMgr::_slideshowLogic at millis() = t: the new _currentState and
\* _lastSlideshowTime
SlideshowLogic(state, last, t, intervalMs) ==
    IF Elapsed(t, last) > intervalMs
    THEN LET next == state + 1
         IN [state |-> IF next > SCREEN_STATUS_SENSORS THEN SCREEN_STATUS_IP ELSE next,
             last |-> t]
    ELSE [state |-> state, last |-> last]

\* DisplayMgr::render: the slideshow runs on the status pages only
Render(state, last, t) ==
    IF state >= SCREEN_STATUS_IP /\ state <= SCREEN_STATUS_SENSORS
    THEN SlideshowLogic(state, last, t, STATUS_SCREEN_LENGTH_MS)
    ELSE [state |-> state, last |-> last]

\* the status displayLoop computes at millis() = t
DisplayStatus(linkOn, t, lastPacket) ==
    IF linkOn
    THEN IF Elapsed(t, lastPacket) < ACTIVE_WINDOW_MS THEN STATUS_ACTIVE
         ELSE IF lastPacket > 0 THEN STATUS_IDLE
         ELSE STATUS_CONNECTED
    ELSE STATUS_DISCONNECTED

\* k iterations of displayLoop's for loop from d = [state, last, t]:
\* vTaskDelay(100), then render at the new millis().  The status local to an
\* iteration is only drawn; DisplayLoop computes that of the last iteration.
RECURSIVE DisplayLoopRun(_, _)
DisplayLoopRun(k, d) ==
    IF k = 0 THEN d
    ELSE LET t == d.t + DISPLAY_DELAY_MS
             r == Render(d.state, d.last, t)
         IN IF r.state >= 0 /\ r.last >= 0
            THEN DisplayLoopRun(k - 1, [state |-> r.state, last |-> r.last, t |-> t])
            ELSE d

(***************************************************************************)
(* The logger (Logger.cpp).  lg is the logger's static state:              *)
(* runtimeLevel is _runtimeLevel, stats the counters of _stats,            *)
(* errorBuffer and errorBufferIndex the circular buffer, out the messages  *)
(* written to Serial so far, statsMark the length of out when the counters *)
(* were last zeroed.  A message is [id, len]: the serial number of the     *)
(* call that logs it, and the length of its text.  The LOG_* macros all    *)
(* expand to a call: their #if compares enumerators, which the             *)
(* preprocessor reads as 0.  lastErrorTime and lastWarnTime are left out.  *)
(***************************************************************************)
ZeroStats == [errorCount |-> 0, warnCount |-> 0, infoCount |-> 0, debugCount |-> 0,
              verboseCount |-> 0]

NoEntry == [valid |-> FALSE, id |-> 0, len |-> 0]

\* the statics as initialised at lines 4-8
StaticLogger ==
    [runtimeLevel |-> LOG_LEVEL_INFO, stats |-> ZeroStats,
     errorBuffer |-> Fill(LOG_ERROR_BUFFER_SIZE, NoEntry), errorBufferIndex |-> 0,
     out |-> <<>>, statsMark |-> 0]

\* the levels a message is logged at
MessageLevels == LOG_LEVEL_ERROR..LOG_LEVEL_VERBOSE

\* the text of the message of call id: longer from call to call, so that
\* some fit an entry of the error buffer and some do not
Message(id) == [id |-> id, len |-> 40 + id]

\* the runtime level check at the head of log and logWithLocation, with >=
\* for >
FilteredOffByOne(level, runtimeLevel) == level >= runtimeLevel

\* the runtime level check at the head of log and logWithLocation
Filtered(level, runtimeLevel) == level > runtimeLevel

\* the counter updateStats increments for level
StatOf(stats, level) ==
    CASE level = LOG_LEVEL_ERROR -> stats.errorCount
      [] level = LOG_LEVEL_WARN -> stats.warnCount
      [] level = LOG_LEVEL_INFO -> stats.infoCount
      [] level = LOG_LEVEL_DEBUG -> stats.debugCount
      [] level = LOG_LEVEL_VERBOSE -> stats.verboseCount
      [] OTHER -> 0

SetStat(stats, level, v) ==
    CASE level = LOG_LEVEL_ERROR -> [stats EXCEPT !.errorCount = v]
      [] level = LOG_LEVEL_WARN -> [stats EXCEPT !.warnCount = v]
      [] level = LOG_LEVEL_INFO -> [stats EXCEPT !.infoCount = v]
      [] level = LOG_LEVEL_DEBUG -> [stats EXCEPT !.debugCount = v]
      [] level = LOG_LEVEL_VERBOSE -> [stats EXCEPT !.verboseCount = v]
      [] OTHER -> stats

\* Logger::updateStats
UpdateStats(stats, level) == SetStat(stats, level, StatOf(stats, level) + 1)

\* Serial.printf of the formatted message
SerialPrint(lg, level, msg) ==
    [lg EXCEPT !.out = Append(@, [level |-> level, id |-> msg.id])]

\* AddToErrorBuffer that fills the entry but leaves the write index
AddToErrorBufferNoAdvance(lg, msg) ==
    [lg EXCEPT !.errorBuffer[lg.errorBufferIndex + 1] =
                   [valid |-> TRUE, id |-> msg.id,
                    len |-> Min(msg.len, ENTRY_MESSAGE_CHARS)]]

\* Logger::addToErrorBuffer
AddToErrorBuffer(lg, msg) ==
    [lg EXCEPT !.errorBuffer[lg.errorBufferIndex + 1] =
                   [valid |-> TRUE, id |-> msg.id,
                    len |-> Min(msg.len, ENTRY_MESSAGE_CHARS)],
               !.errorBufferIndex = U8((lg.errorBufferIndex + 1) % LOG_ERROR_BUFFER_SIZE)]

\* Logger::log and Logger::logWithLocation from the level check to the
\* return, with nothing running in between (they differ in the text
\* printed only)
Log(lg, level, msg) ==
    IF Filtered(level, lg.runtimeLevel) THEN lg
    ELSE LET printed == SerialPrint(lg, level, msg)
             counted == [printed EXCEPT !.stats = UpdateStats(@, level)]
         IN IF level <= LOG_LEVEL_WARN THEN AddToErrorBuffer(counted, msg)
            ELSE counted

\* Logger::begin: the entries are marked invalid, the runtime level is set
\* to LOG_LEVEL, and "Logger initialized" is logged
Begin(lg, msg) ==
    Log([lg EXCEPT !.errorBuffer = [i \in 1..LOG_ERROR_BUFFER_SIZE |->
                                        [lg.errorBuffer[i] EXCEPT !.valid = FALSE]],
                   !.runtimeLevel = LOG_LEVEL],
        LOG_LEVEL_INFO, msg)

\* Logger::setLevel: "Runtime log level changed" is logged at the new level
SetLevel(lg, level, msg) ==
    Log([lg EXCEPT !.runtimeLevel = level], LOG_LEVEL_INFO, msg)

\* the counters zeroed by resetStats
ZeroedStats(lg) == [lg EXCEPT !.stats = ZeroStats, !.statsMark = Len(lg.out)]

\* Logger::resetStats: "Statistics reset" is logged after the counters are
\* zeroed
ResetStats(lg, msg) == Log(ZeroedStats(lg), LOG_LEVEL_INFO, msg)

\* Logger::dumpRecentErrors: the entries it prints, in the order printed
RECURSIVE DumpFrom(_, _, _)
DumpFrom(lg, i, printed) ==
    IF i = LOG_ERROR_BUFFER_SIZE THEN printed
    ELSE LET idx == (lg.errorBufferIndex + i) % LOG_ERROR_BUFFER_SIZE
             entry == lg.errorBuffer[idx + 1]
             next == IF entry.valid THEN Append(printed, entry) ELSE printed
         IN IF Len(next) >= 0 THEN DumpFrom(lg, i + 1, next) ELSE printed

DumpRecentErrors(lg) == DumpFrom(lg, 0, <<>>)

\* the log calls of a sequence made one after the other; the first is call
\* id
RECURSIVE LogAll(_, _, _)
LogAll(lg, calls, id) ==
    IF calls = <<>> THEN lg
    ELSE LET next == Log(lg, calls[1].level, Message(id))
         IN IF next.errorBufferIndex >= 0 /\ Len(next.out) >= 0
            THEN LogAll(next, Tail(calls), id + 1)
            ELSE lg

\* k consecutive calls of Logger::log at one level; the first is call id
RECURSIVE LogRun(_, _, _, _)
LogRun(lg, level, id, k) ==
    IF k = 0 THEN lg
    ELSE LET next == Log(lg, level, Message(id))
         IN IF next.errorBufferIndex >= 0 /\ Len(next.out) >= 0
            THEN LogRun(next, level, id + 1, k - 1)
            ELSE lg

(***************************************************************************)
(* State                                                                   *)
(***************************************************************************)
VARIABLES
    packetBuffer,     \* E131Handler::_packetBuffer
    e131Universe,     \* E131Handler::_universe
    localDmxBuffer,   \* networkLoop's localDmxBuffer
    sharedDmxData,    \* main.cpp sharedDmxData
    lastPacketTime,   \* main.cpp lastPacketTime
    packetReceived,   \* main.cpp packetReceived
    deviceConfig,     \* main.cpp deviceConfig
    radioStream,      \* every byte written to the HC-12 serial port so far
    now,              \* millis()
    iters,            \* loop iterations of networkLoop so far
    sends,            \* direct calls of sendDmxPacket so far (RadioSpec)
    rx,               \* the datagram the last iteration pulled (NoPacket: none)
    parseRet,         \* what the last parsePacket returned
    parseReads,       \* one more than the highest _packetBuffer index it read
    logged,           \* the log calls of the last step
    lastTx,           \* length argument of the last step's sendDmxPacket, -1: no call
    streamMark,       \* Len(radioStream) before the last step
    air,              \* the last radio frame as the receiver gets it
    fault,            \* <<byte, bit>> the link flipped in air, <<>>: none
    currentState,     \* DisplayMgr::_currentState
    menuIndex,        \* DisplayMgr::_menuIndex
    lastSlideshowTime, \* DisplayMgr::_lastSlideshowTime
    netStatus,        \* the status displayLoop computed last
    linkUp,           \* whether Ethernet.linkStatus() was LinkON when it did
    phase,            \* "reset": setup() has not run yet, "run": the tasks run
    loads,            \* calls of loadConfig so far
    loadRet,          \* what nvs_get_blob returned to loadConfig, "": not called yet
    saved,            \* the configurations passed to saveConfig by the last step
    lastButton,       \* the button of the last step, 0: the step was no press
    presses,          \* button presses so far
    runs,             \* runs of displayLoop iterations so far
    committed,        \* the configuration as loaded at startup or last committed
    renderPc,         \* render's position: "idle", or the next step of the slideshow
    renderNext,       \* _slideshowLogic's local next
    pc,               \* networkLoop's position: "poll", or the next store of a publication
    gen,              \* the loop iteration that last wrote each part of the shared state
    seen,             \* the shared state as the last displayLoop iteration found it
    consumed,         \* displayLoop iterations since packetReceived was last written
    logger,           \* the logger's statics and what it wrote to Serial
    mutex,            \* Logger::_mutex: MutexNull, MutexFree, or the task holding it
    taskPc,           \* each task's position in its logger call, "idle": in none
    taskCall,         \* each task's logger call: function, level and message
    taskReg,          \* each task's copy of the counter updateStats increments
    logCalls,         \* logger calls made so far
    logOps,           \* steps of the logger's callers so far
    lastOp,           \* the logger function the last step called, its level, how often
    dumped,           \* what the last dumpRecentErrors printed
    hw,               \* what Ethernet.hardwareStatus() and linkStatus() report now
    lastHw,           \* checkHardware's statics lastHardwareOk and lastLinkOk
    pending           \* the datagram waiting in the UDP socket (NoPacket: none)

\* the state of the menu and the display, with its bookkeeping
uiVars == <<currentState, menuIndex, lastSlideshowTime, netStatus, linkUp, phase, loads,
            loadRet, saved, lastButton, presses, runs, committed, renderPc, renderNext>>

\* the bookkeeping of the cross-core handoff
shareVars == <<pc, gen, seen, consumed>>

\* the logger and its callers
logVars == <<logger, mutex, taskPc, taskCall, taskReg, logCalls, logOps, lastOp, dumped>>

\* the Ethernet hardware and the socket, with checkHardware's memory of them
envVars == <<hw, lastHw, pending>>

vars == <<packetBuffer, e131Universe, localDmxBuffer, sharedDmxData, lastPacketTime,
          packetReceived, deviceConfig, radioStream, now, iters, sends, rx, parseRet,
          parseReads, logged, lastTx, streamMark, air, fault, uiVars, shareVars,
          logVars, envVars>>

\* configurations in effect when the tasks start
BootConfigs ==
    {[universe |-> u, numLeds |-> n, ipAddress |-> DefaultIp, useDhcp |-> FALSE] :
        u \in {DEFAULT_UNIVERSE, 33024}, n \in {MIN_NUM_LEDS, 10, MAX_NUM_LEDS, 100}}

\* networkLoop's localDmxBuffer is an uninitialised stack array: any content
LocalJunk == {0, 165}

\* _mutex before xSemaphoreCreateMutex, and with no holder
MutexNull == -1
MutexFree == 0

\* the tasks that call the logger
Tasks == {1, 2}

NoCall == [op |-> "", level |-> 0, msg |-> Message(0)]
NoOp == [op |-> "", level |-> 0, k |-> 0]

\* no task in a logger call
CallersIdle ==
    /\ taskPc = [t \in Tasks |-> "idle"]
    /\ taskCall = [t \in Tasks |-> NoCall]
    /\ taskReg = [t \in Tasks |-> 0]
    /\ logCalls = 0
    /\ logOps = 0
    /\ lastOp = NoOp
    /\ dumped = <<>>

\* the logger before setup() calls Logger::begin
LoggerAtReset ==
    /\ logger = StaticLogger
    /\ mutex = MutexNull
    /\ CallersIdle

\* the logger once setup() has called Logger::begin
LoggerAfterBegin ==
    /\ logger = Begin(StaticLogger, Message(0))
    /\ mutex = MutexFree
    /\ CallersIdle

\* the W5500 present and the cable plugged in; checkHardware's statics
\* start as this
HardwareUp == [hardwareOk |-> TRUE, linkOk |-> TRUE]

\* no part of the shared state written yet, nothing observed yet
NoGen == [head |-> 0, tail |-> 0, stamp |-> 0, flag |-> 0]
NotSeen == [time |-> 0, flag |-> FALSE, gen |-> NoGen, valid |-> FALSE]

\* the data plane with its globals zero-initialised, for the configuration
\* cfg in effect and E131Handler::_universe as given
DataPlaneWith(cfg, universe, local) ==
    /\ packetBuffer = Fill(E131_MAX_PACKET_SIZE, 0)
    /\ deviceConfig = cfg
    /\ e131Universe = universe
    /\ localDmxBuffer = local
    /\ sharedDmxData = Fill(DMX_MAX_CHANNELS, 0)
    /\ lastPacketTime = 0
    /\ packetReceived = FALSE
    /\ radioStream = <<>>
    /\ now = 0
    /\ iters = 0
    /\ sends = 0
    /\ rx = NoPacket
    /\ parseRet = 0
    /\ parseReads = 0
    /\ logged = <<>>
    /\ lastTx = -1
    /\ streamMark = 0
    /\ air = <<>>
    /\ fault = <<>>
    /\ pc = "poll"
    /\ gen = NoGen
    /\ seen = NotSeen
    /\ consumed = 0
    /\ hw = HardwareUp
    /\ lastHw = HardwareUp
    /\ pending = NoPacket

\* the same with eth.setUniverse(cfg.universe) done
DataPlaneInit(cfg, local) == DataPlaneWith(cfg, cfg.universe, local)

\* the menu and the display once setup() has run: displayMgr.begin() has
\* set the first status page, loadConfig has been called once
UiAfterSetup ==
    /\ currentState = SCREEN_STATUS_IP
    /\ menuIndex = 0
    /\ lastSlideshowTime = 0
    /\ netStatus = STATUS_DISCONNECTED
    /\ linkUp = FALSE
    /\ phase = "run"
    /\ loads = 1
    /\ loadRet = "ESP_OK"
    /\ saved = <<>>
    /\ lastButton = 0
    /\ presses = 0
    /\ runs = 0
    /\ committed = deviceConfig
    /\ renderPc = "idle"
    /\ renderNext = 0

\* The state once setup() has run and networkLoop has reached its for loop:
\* the globals are zero-initialised, eth.setUniverse(deviceConfig.universe)
\* has run.
InitWith(cfg, local) ==
    /\ DataPlaneInit(cfg, local)
    /\ UiAfterSetup
    /\ LoggerAfterBegin

Init ==
    \E cfg \in BootConfigs, j \in LocalJunk :
        InitWith(cfg, Fill(DMX_MAX_CHANNELS, j))

(***************************************************************************)
(* networkLoop, one iteration of the for loop with the hardware ready:     *)
(* parsePacket on the pending datagram d and, when it returns len > 0, the *)
(* radio transmit and the publication of the snapshot; then vTaskDelay(1). *)
(***************************************************************************)
NetworkLoopReady(hardwareOk, linkOk, d) ==
    /\ iters < MaxIters
    /\ pc = "poll"
    /\ CheckHardware(hardwareOk, linkOk)
    /\ \E r \in {ParsePacket(packetBuffer, localDmxBuffer, e131Universe, d)} :
       \E len \in {r.ret} :
       \E bytesToSend \in {BytesToSend(deviceConfig.numLeds, len)} :
       \E tx \in {SendDmxPacket(r.out, bytesToSend)} :
          /\ packetBuffer' = r.buf
          /\ localDmxBuffer' = r.out
          /\ parseRet' = len
          /\ parseReads' = r.reads
          /\ rx' = d
          /\ streamMark' = Len(radioStream)
          /\ IF len > 0
             THEN /\ radioStream' = radioStream \o tx.bytes
                  /\ air' = tx.bytes
                  /\ lastTx' = bytesToSend
                  /\ logged' = r.log \o tx.log
                  /\ sharedDmxData' = Memcpy(sharedDmxData, r.out, 0, len)
                  /\ lastPacketTime' = now
                  /\ packetReceived' = TRUE
             ELSE /\ lastTx' = -1
                  /\ logged' = r.log
                  /\ UNCHANGED <<radioStream, air, sharedDmxData, lastPacketTime,
                                 packetReceived>>
    /\ now' = now + LOOP_DELAY_MS
    /\ iters' = iters + 1
    /\ fault' = <<>>
    /\ UNCHANGED <<e131Universe, deviceConfig, sends, uiVars, shareVars>>

\* the iteration, with the logger and the hardware left out of the picture
NetPoll(hardwareOk, linkOk, d) ==
    /\ NetworkLoopReady(hardwareOk, linkOk, d)
    /\ UNCHANGED <<logVars, envVars>>

(***************************************************************************)
(* networkLoop, one iteration with checkHardware() false: vTaskDelay(100). *)
(***************************************************************************)
NetworkLoopNotReady(hardwareOk, linkOk) ==
    /\ iters < MaxIters
    /\ pc = "poll"
    /\ ~CheckHardware(hardwareOk, linkOk)
    /\ now' = now + LINK_DOWN_DELAY_MS
    /\ iters' = iters + 1
    /\ rx' = NoPacket
    /\ parseRet' = 0
    /\ parseReads' = 0
    /\ logged' = <<>>
    /\ lastTx' = -1
    /\ streamMark' = Len(radioStream)
    /\ fault' = <<>>
    /\ UNCHANGED <<packetBuffer, e131Universe, localDmxBuffer, sharedDmxData,
                   lastPacketTime, packetReceived, deviceConfig, radioStream, sends, air,
                   uiVars, shareVars>>

\* the iteration, with the logger and the hardware left out of the picture
NetLinkDown(hardwareOk, linkOk) ==
    /\ NetworkLoopNotReady(hardwareOk, linkOk)
    /\ UNCHANGED <<logVars, envVars>>

Next ==
    \/ \E hardwareOk \in BOOLEAN, linkOk \in BOOLEAN, d \in Datagrams \cup {NoPacket} :
          NetPoll(hardwareOk, linkOk, d)
    \/ \E hardwareOk \in BOOLEAN, linkOk \in BOOLEAN :
          NetLinkDown(hardwareOk, linkOk)

Spec == Init /\ [][Next]_vars

(***************************************************************************)
(* The radio framer on its own: sendDmxPacket called with payloads and     *)
(* lengths of every kind, and the lossy link between it and a receiver.    *)
(***************************************************************************)
\* lengths passed to sendDmxPacket (a uint16_t)
TxLens == {0, 1, 150, 255, 256, 65535}

\* payload buffers: byte i carries (f + 3 * i) mod 256
PayloadFills == {0, 170}
PayloadBuffer(f) == [i \in 1..DMX_MAX_CHANNELS |-> (f + 3 * (i - 1)) % 256]

RadioInit ==
    \E f \in PayloadFills :
        InitWith([universe |-> DEFAULT_UNIVERSE, numLeds |-> 10,
                  ipAddress |-> DefaultIp, useDhcp |-> FALSE],
                 PayloadBuffer(f))

\* radio.sendDmxPacket(localDmxBuffer, length)
RadioCall(length) ==
    /\ sends < MaxSends
    /\ LET tx == SendDmxPacket(localDmxBuffer, length)
       IN /\ radioStream' = radioStream \o tx.bytes
          /\ air' = tx.bytes
          /\ logged' = tx.log
    /\ lastTx' = length
    /\ streamMark' = Len(radioStream)
    /\ sends' = sends + 1
    /\ fault' = <<>>
    /\ UNCHANGED <<packetBuffer, e131Universe, localDmxBuffer, sharedDmxData,
                   lastPacketTime, packetReceived, deviceConfig, now, iters, rx,
                   parseRet, parseReads, uiVars, shareVars, logVars, envVars>>

\* bytes of a frame in the air the link may hit: the marker, the length
\* byte, the first MaxFlipByte payload bytes, the last payload byte and the
\* checksum
FaultPositions(frame) ==
    {j \in 0..(Len(frame) - 1) : j < 2 + MaxFlipByte \/ j >= Len(frame) - 2}

\* the frame with bit b of its byte j flipped
FlipBit(frame, j, b) == [frame EXCEPT ![j + 1] = BitXor(@, 2 ^ b)]

\* the lossy link flips one bit of the frame in the air
LinkFault(j, b) ==
    /\ air # <<>>
    /\ fault = <<>>
    /\ j \in FaultPositions(air)
    /\ air' = FlipBit(air, j, b)
    /\ fault' = <<j, b>>
    /\ UNCHANGED <<packetBuffer, e131Universe, localDmxBuffer, sharedDmxData,
                   lastPacketTime, packetReceived, deviceConfig, radioStream, now,
                   iters, sends, rx, parseRet, parseReads, logged, lastTx, streamMark,
                   uiVars, shareVars, logVars, envVars>>

RadioNext ==
    \/ \E length \in TxLens : RadioCall(length)
    \/ \E j \in 0..(RADIO_MAX_LENGTH + 2), b \in 0..7 : LinkFault(j, b)

RadioSpec == RadioInit /\ [][RadioNext]_vars

(***************************************************************************)
(* The configuration and the menu: setup() from reset, then button presses *)
(* and the display loop.                                                   *)
(***************************************************************************)
\* DeviceConfig of the zero-initialised global deviceConfig
ZeroConfig == [universe |-> 0, numLeds |-> 0, ipAddress |-> <<0, 0, 0, 0>>, useDhcp |-> FALSE]

\* what nvs_get_blob may return: a blob was read, nothing is stored, the
\* read failed
NvsResults == {"ESP_OK", "ESP_ERR_NVS_NOT_FOUND", "ESP_ERR_NVS_INVALID_LENGTH"}

\* stored blobs: configurations saved by an earlier run, as <<universe,
\* numLeds>>: both fields at their minimum, inside their range, one step
\* below their maximum, at their maximum
StoredBlobs ==
    {[universe |-> c[1], numLeds |-> c[2], ipAddress |-> DefaultIp, useDhcp |-> FALSE] :
        c \in {<<MIN_UNIVERSE, MIN_NUM_LEDS>>, <<DEFAULT_UNIVERSE, 10>>,
               <<MAX_UNIVERSE - 1, MAX_NUM_LEDS - 1>>, <<MAX_UNIVERSE, MAX_NUM_LEDS>>}}

\* the buttons buttonInputLoop polls
Buttons == {BTN_UP, BTN_DOWN, BTN_LEFT, BTN_RIGHT, BTN_SEL}

\* consecutive displayLoop iterations taken in one step: one, or as many as
\* two advances of the slideshow take
TickRuns == {1, 62}

\* the state at reset: globals zero-initialised, DisplayMgr constructed,
\* E131Handler::_universe as its member initialiser leaves it
UiInit ==
    /\ DataPlaneWith(ZeroConfig, DEFAULT_UNIVERSE, Fill(DMX_MAX_CHANNELS, 0))
    /\ currentState = SCREEN_BOOT
    /\ menuIndex = 0
    /\ lastSlideshowTime = 0
    /\ netStatus = STATUS_DISCONNECTED
    /\ linkUp = FALSE
    /\ phase = "reset"
    /\ loads = 0
    /\ loadRet = ""
    /\ saved = <<>>
    /\ lastButton = 0
    /\ presses = 0
    /\ runs = 0
    /\ committed = ZeroConfig
    /\ renderPc = "idle"
    /\ renderNext = 0
    /\ LoggerAtReset

\* setup(): Logger::begin(), configMgr.loadConfig(deviceConfig),
\* displayMgr.begin(), and the tasks are created
SetupCall(ret, blob) ==
    /\ phase = "reset"
    /\ LET r == LoadConfig(deviceConfig, ret, blob)
       IN /\ deviceConfig' = r.config
          /\ saved' = r.saved
          /\ logged' = r.log
          /\ committed' = r.config
    /\ logger' = Begin(logger, Message(0))
    /\ mutex' = MutexFree
    /\ loads' = loads + 1
    /\ loadRet' = ret
    /\ currentState' = SCREEN_STATUS_IP
    /\ phase' = "run"
    /\ UNCHANGED <<packetBuffer, localDmxBuffer, sharedDmxData, lastPacketTime,
                   packetReceived, radioStream, now, iters, sends, rx, parseRet,
                   parseReads, lastTx, streamMark, air, fault, menuIndex,
                   lastSlideshowTime, netStatus, linkUp, lastButton, presses, runs,
                   gen, seen, consumed, envVars, taskPc, taskCall, taskReg, logCalls,
                   logOps, lastOp, dumped, renderPc, renderNext>>

\* setup() with networkLoop's prologue run before any other task does
\* anything: eth.setUniverse(deviceConfig.universe)
Setup(ret, blob) ==
    /\ SetupCall(ret, blob)
    /\ e131Universe' = SetUniverse(e131Universe, deviceConfig'.universe)
    /\ pc' = pc

\* buttonInputLoop sees a press:
\* displayMgr.handleButtonPress(pin, deviceConfig, saveConfigCallback)
ButtonPress(button) ==
    /\ phase = "run"
    /\ presses < MaxPresses
    /\ LET r == HandleButtonPress(button, currentState, menuIndex, deviceConfig,
                                  e131Universe)
       IN /\ currentState' = r.state
          /\ menuIndex' = r.menuIndex
          /\ deviceConfig' = r.config
          /\ e131Universe' = r.universe
          /\ saved' = r.saved
          /\ committed' = IF r.saved # <<>> THEN r.saved[1] ELSE committed
    /\ lastButton' = button
    /\ presses' = presses + 1
    /\ UNCHANGED <<packetBuffer, localDmxBuffer, sharedDmxData, lastPacketTime,
                   packetReceived, radioStream, now, iters, sends, rx, parseRet,
                   parseReads, logged, lastTx, streamMark, air, fault,
                   lastSlideshowTime, netStatus, linkUp, phase, loads, loadRet, runs,
                   renderPc, renderNext, shareVars, logVars, envVars>>

\* k iterations of displayLoop; the last one finds the shared state as seen
\* records it
DisplayLoop(k, linkOn) ==
    /\ phase = "run"
    /\ runs < MaxRuns
    /\ renderPc = "idle"
    /\ LET d == DisplayLoopRun(k, [state |-> currentState, last |-> lastSlideshowTime,
                                   t |-> now])
       IN /\ currentState' = d.state
          /\ lastSlideshowTime' = d.last
          /\ now' = d.t
          /\ netStatus' = DisplayStatus(linkOn, d.t, lastPacketTime)
    /\ linkUp' = linkOn
    /\ seen' = [time |-> lastPacketTime, flag |-> packetReceived, gen |-> gen,
                valid |-> TRUE]
    /\ consumed' = consumed + k
    /\ runs' = runs + 1
    /\ saved' = <<>>
    /\ lastButton' = 0
    /\ UNCHANGED <<packetBuffer, e131Universe, localDmxBuffer, sharedDmxData,
                   lastPacketTime, packetReceived, deviceConfig, radioStream, iters,
                   sends, rx, parseRet, parseReads, logged, lastTx, streamMark, air,
                   fault, menuIndex, phase, loads, loadRet, presses, committed, renderPc,
                   renderNext, pc, gen, logVars, envVars>>

UiNext ==
    \/ \E ret \in NvsResults, blob \in StoredBlobs : Setup(ret, blob)
    \/ \E button \in Buttons : ButtonPress(button)
    \/ \E k \in TickRuns, linkOn \in BOOLEAN : DisplayLoop(k, linkOn)

UiSpec == UiInit /\ [][UiNext]_vars

(***************************************************************************)
(* The cross-core handoff: networkLoop on core 0 with the stores of a      *)
(* publication (src/main.cpp lines 57-59) as separate steps, and           *)
(* displayLoop on core 1.  Nothing orders the two tasks: no lock, no       *)
(* critical section, and memcpy copies byte by byte.                       *)
(***************************************************************************)
\* memcpy(dst + off, src + off, n)
MemcpyAt(dst, src, off, n) ==
    SubSeq(dst, 1, off) \o SubSeq(src, off + 1, off + n)
                        \o SubSeq(dst, off + n + 1, Len(dst))

\* frames that carry the channels they declare, for universe 129: 512
\* channels and 10 channels; and a frame for another universe
ShareDatagrams ==
    {[size |-> 640, uni |-> DEFAULT_UNIVERSE, sc |-> DMX_STARTCODE, decl |-> 513, fill |-> 1],
     [size |-> 136, uni |-> DEFAULT_UNIVERSE, sc |-> DMX_STARTCODE, decl |-> 11, fill |-> 101],
     [size |-> 136, uni |-> 33024, sc |-> DMX_STARTCODE, decl |-> 11, fill |-> 1]}

ShareInit ==
    InitWith([universe |-> DEFAULT_UNIVERSE, numLeds |-> 10,
              ipAddress |-> DefaultIp, useDhcp |-> FALSE],
             Fill(DMX_MAX_CHANNELS, 0))

\* one iteration of networkLoop with the hardware ready, up to and
\* including radio.sendDmxPacket; for len > 0 the publication follows
ProdPoll(hardwareOk, linkOk, d) ==
    /\ iters < MaxIters
    /\ pc = "poll"
    /\ CheckHardware(hardwareOk, linkOk)
    /\ LET r == ParsePacket(packetBuffer, localDmxBuffer, e131Universe, d)
           len == r.ret
           bytesToSend == BytesToSend(deviceConfig.numLeds, len)
           tx == SendDmxPacket(r.out, bytesToSend)
       IN /\ packetBuffer' = r.buf
          /\ localDmxBuffer' = r.out
          /\ parseRet' = len
          /\ parseReads' = r.reads
          /\ rx' = d
          /\ streamMark' = Len(radioStream)
          /\ IF len > 0
             THEN /\ radioStream' = radioStream \o tx.bytes
                  /\ air' = tx.bytes
                  /\ lastTx' = bytesToSend
                  /\ logged' = r.log \o tx.log
                  /\ pc' = "copy"
                  /\ now' = now
             ELSE /\ lastTx' = -1
                  /\ logged' = r.log
                  /\ pc' = "poll"
                  /\ now' = now + LOOP_DELAY_MS
                  /\ UNCHANGED <<radioStream, air>>
    /\ iters' = iters + 1
    /\ fault' = <<>>
    /\ UNCHANGED <<e131Universe, deviceConfig, sends, sharedDmxData, lastPacketTime,
                   packetReceived, uiVars, gen, seen, consumed, logVars, envVars>>

\* what a store of the publication leaves alone
ProdKeeps ==
    UNCHANGED <<packetBuffer, e131Universe, localDmxBuffer, deviceConfig, radioStream,
                iters, sends, rx, parseRet, parseReads, logged, lastTx, streamMark, air,
                fault, uiVars, seen, logVars, envVars>>

\* memcpy(sharedDmxData, localDmxBuffer, len), the first half of its bytes
ProdCopyHead ==
    /\ pc = "copy"
    /\ sharedDmxData' = MemcpyAt(sharedDmxData, localDmxBuffer, 0, parseRet \div 2)
    /\ gen' = [gen EXCEPT !.head = iters]
    /\ pc' = "copyTail"
    /\ ProdKeeps
    /\ UNCHANGED <<lastPacketTime, packetReceived, now, consumed>>

\* memcpy(sharedDmxData, localDmxBuffer, len), the rest of its bytes
ProdCopyTail ==
    /\ pc = "copyTail"
    /\ sharedDmxData' = MemcpyAt(sharedDmxData, localDmxBuffer, parseRet \div 2,
                                 parseRet - (parseRet \div 2))
    /\ gen' = [gen EXCEPT !.tail = iters]
    /\ pc' = "stamp"
    /\ ProdKeeps
    /\ UNCHANGED <<lastPacketTime, packetReceived, now, consumed>>

\* ProdStamp with the two stores exchanged: packetReceived = true is made
\* where lastPacketTime = millis() belongs
ProdStampAfterFlag ==
    /\ pc = "stamp"
    /\ packetReceived' = TRUE
    /\ gen' = [gen EXCEPT !.flag = iters]
    /\ pc' = "flag"
    /\ ProdKeeps
    /\ UNCHANGED <<sharedDmxData, lastPacketTime, now, consumed>>

\* lastPacketTime = millis()
ProdStamp ==
    /\ pc = "stamp"
    /\ lastPacketTime' = now
    /\ gen' = [gen EXCEPT !.stamp = iters]
    /\ pc' = "flag"
    /\ ProdKeeps
    /\ UNCHANGED <<sharedDmxData, packetReceived, now, consumed>>

\* packetReceived = true, then vTaskDelay(1)
ProdFlag ==
    /\ pc = "flag"
    /\ packetReceived' = TRUE
    /\ gen' = [gen EXCEPT !.flag = iters]
    /\ consumed' = 0
    /\ pc' = "poll"
    /\ now' = now + LOOP_DELAY_MS
    /\ ProdKeeps
    /\ UNCHANGED <<sharedDmxData, lastPacketTime>>

ShareNext ==
    \/ \E hardwareOk \in BOOLEAN, linkOk \in BOOLEAN, d \in ShareDatagrams \cup {NoPacket} :
          ProdPoll(hardwareOk, linkOk, d)
    \/ \E hardwareOk \in BOOLEAN, linkOk \in BOOLEAN :
          NetLinkDown(hardwareOk, linkOk)
    \/ ProdCopyHead
    \/ ProdCopyTail
    \/ ProdStamp
    \/ ProdFlag
    \/ \E k \in TickRuns, linkOn \in BOOLEAN : DisplayLoop(k, linkOn)

ShareSpec == ShareInit /\ [][ShareNext]_vars

(***************************************************************************)
(* The producer and the menu together: networkLoop receives frames while   *)
(* buttons are pressed.                                                    *)
(***************************************************************************)
EditInit ==
    InitWith([universe |-> DEFAULT_UNIVERSE, numLeds |-> 10,
              ipAddress |-> DefaultIp, useDhcp |-> FALSE],
             Fill(DMX_MAX_CHANNELS, 0))

EditNext ==
    \/ \E button \in Buttons : ButtonPress(button)
    \/ \E hardwareOk \in BOOLEAN, linkOk \in BOOLEAN, d \in ShareDatagrams \cup {NoPacket} :
          NetPoll(hardwareOk, linkOk, d)
    \/ \E hardwareOk \in BOOLEAN, linkOk \in BOOLEAN :
          NetLinkDown(hardwareOk, linkOk)

EditSpec == EditInit /\ [][EditNext]_vars

(***************************************************************************)
(* The boot with its tasks apart.  setup() creates NetTask on core 0 and   *)
(* InTask on core 1 (src/main.cpp lines 142-146); networkLoop's prologue   *)
(* (eth.begin, then eth.setUniverse(deviceConfig.universe), lines 43-44)   *)
(* reads the global deviceConfig with no lock at whatever time eth.begin   *)
(* returns, while buttonInputLoop already handles presses.  The logger is  *)
(* left out here.                                                          *)
(***************************************************************************)
\* frames on the wire during and after the boot: one for universe 129, one
\* for another universe
BootDatagrams == {d \in ShareDatagrams : d.size = 136}

\* setup() returns with the tasks created: networkLoop is in eth.begin
BootSetup(ret, blob) ==
    /\ SetupCall(ret, blob)
    /\ e131Universe' = e131Universe
    /\ pc' = "begin"

\* networkLoop, lines 43-45: eth.begin returns and
\* eth.setUniverse(deviceConfig.universe) runs; the for loop is next
NetworkLoopBegin ==
    /\ phase = "run"
    /\ pc = "begin"
    /\ e131Universe' = SetUniverse(e131Universe, deviceConfig.universe)
    /\ pc' = "poll"
    /\ UNCHANGED <<packetBuffer, localDmxBuffer, sharedDmxData, lastPacketTime,
                   packetReceived, deviceConfig, radioStream, now, iters, sends, rx,
                   parseRet, parseReads, logged, lastTx, streamMark, air, fault,
                   uiVars, gen, seen, consumed, logVars, envVars>>

BootNext ==
    \/ \E ret \in NvsResults, blob \in StoredBlobs : BootSetup(ret, blob)
    \/ NetworkLoopBegin
    \/ \E button \in Buttons : ButtonPress(button)
    \/ \E d \in BootDatagrams : phase = "run" /\ NetPoll(TRUE, TRUE, d)

BootSpec == UiInit /\ [][BootNext]_vars

(***************************************************************************)
(* The display task and the input task together.  Both run on core 1 with  *)
(* the same priority, so either is preempted by the other at any tick:     *)
(* render's slideshow is a sequence of steps between which                 *)
(* handleButtonPress may run.                                              *)
(***************************************************************************)
RenderInit ==
    InitWith([universe |-> DEFAULT_UNIVERSE, numLeds |-> 10,
              ipAddress |-> DefaultIp, useDhcp |-> FALSE],
             Fill(DMX_MAX_CHANNELS, 0))

\* k - 1 whole iterations of displayLoop, then one more up to its call of
\* displayMgr.render
RenderEnter(k, linkOn) ==
    /\ phase = "run"
    /\ runs < MaxRuns
    /\ renderPc = "idle"
    /\ LET d == DisplayLoopRun(k - 1, [state |-> currentState,
                                       last |-> lastSlideshowTime, t |-> now])
           t == d.t + DISPLAY_DELAY_MS
       IN /\ currentState' = d.state
          /\ lastSlideshowTime' = d.last
          /\ now' = t
          /\ netStatus' = DisplayStatus(linkOn, t, lastPacketTime)
    /\ linkUp' = linkOn
    /\ seen' = [time |-> lastPacketTime, flag |-> packetReceived, gen |-> gen,
                valid |-> TRUE]
    /\ consumed' = consumed + k
    /\ runs' = runs + 1
    /\ saved' = <<>>
    /\ lastButton' = 0
    /\ renderPc' = "check"
    /\ UNCHANGED <<packetBuffer, e131Universe, localDmxBuffer, sharedDmxData,
                   lastPacketTime, packetReceived, deviceConfig, radioStream, iters,
                   sends, rx, parseRet, parseReads, logged, lastTx, streamMark, air,
                   fault, menuIndex, phase, loads, loadRet, presses, committed,
                   renderNext, pc, gen, logVars, envVars>>

\* what a step inside render leaves alone
RenderKeeps ==
    UNCHANGED <<packetBuffer, e131Universe, localDmxBuffer, sharedDmxData,
                lastPacketTime, packetReceived, deviceConfig, radioStream, now, iters,
                sends, rx, parseRet, parseReads, logged, lastTx, streamMark, air, fault,
                menuIndex, netStatus, linkUp, phase, loads, loadRet, saved, lastButton,
                presses, runs, committed, shareVars, logVars, envVars>>

\* render tests _currentState for a status page, _slideshowLogic tests the
\* elapsed time and stores _lastSlideshowTime; otherwise render draws the
\* screen and returns
RenderCheck ==
    /\ renderPc = "check"
    /\ IF /\ currentState >= SCREEN_STATUS_IP
          /\ currentState <= SCREEN_STATUS_SENSORS
          /\ Elapsed(now, lastSlideshowTime) > STATUS_SCREEN_LENGTH_MS
       THEN /\ lastSlideshowTime' = now
            /\ renderPc' = "load"
       ELSE /\ renderPc' = "idle"
            /\ UNCHANGED lastSlideshowTime
    /\ RenderKeeps
    /\ UNCHANGED <<currentState, renderNext>>

\* int next = (int)_currentState + 1, wrapped to the first status page
SlideLoad ==
    /\ renderPc = "load"
    /\ renderNext' = IF currentState + 1 > SCREEN_STATUS_SENSORS THEN SCREEN_STATUS_IP
                     ELSE currentState + 1
    /\ renderPc' = "store"
    /\ RenderKeeps
    /\ UNCHANGED <<currentState, lastSlideshowTime>>

\* _currentState = (ScreenState)next; render draws the screen and returns
SlideStore ==
    /\ renderPc = "store"
    /\ currentState' = renderNext
    /\ renderPc' = "idle"
    /\ RenderKeeps
    /\ UNCHANGED <<lastSlideshowTime, renderNext>>

RenderNext ==
    \/ \E k \in TickRuns, linkOn \in BOOLEAN : RenderEnter(k, linkOn)
    \/ RenderCheck
    \/ SlideLoad
    \/ SlideStore
    \/ \E button \in Buttons : ButtonPress(button)

RenderSpec == RenderInit /\ [][RenderNext]_vars

(***************************************************************************)
(* The logger called from one task at a time: every call runs from its     *)
(* first line to its return before the next one starts.                    *)
(***************************************************************************)
\* consecutive Logger::log calls taken in one step: one, or one fewer than
\* the error buffer holds
LogRuns == {1, LOG_ERROR_BUFFER_SIZE - 1}

\* the levels setLevel is called with
RuntimeLevels == LOG_LEVEL_NONE..LOG_LEVEL_VERBOSE

LogInit ==
    InitWith([universe |-> DEFAULT_UNIVERSE, numLeds |-> 10,
              ipAddress |-> DefaultIp, useDhcp |-> FALSE],
             Fill(DMX_MAX_CHANNELS, 0))

\* what a step of the logger's callers leaves alone
LogKeeps ==
    UNCHANGED <<packetBuffer, e131Universe, localDmxBuffer, sharedDmxData,
                lastPacketTime, packetReceived, deviceConfig, radioStream, now, iters,
                sends, rx, parseRet, parseReads, logged, lastTx, streamMark, air, fault,
                uiVars, shareVars, envVars>>

\* k calls of Logger::log (or logWithLocation) at one level
LogCall(level, k) ==
    /\ logOps < MaxLogOps
    /\ logger' = LogRun(logger, level, logCalls + 1, k)
    /\ logCalls' = logCalls + k
    /\ logOps' = logOps + 1
    /\ lastOp' = [op |-> "log", level |-> level, k |-> k]
    /\ LogKeeps
    /\ UNCHANGED <<mutex, taskPc, taskCall, taskReg, dumped>>

\* Logger::setLevel(level)
SetLevelCall(level) ==
    /\ logOps < MaxLogOps
    /\ logger' = SetLevel(logger, level, Message(logCalls + 1))
    /\ logCalls' = logCalls + 1
    /\ logOps' = logOps + 1
    /\ lastOp' = [op |-> "setLevel", level |-> level, k |-> 1]
    /\ LogKeeps
    /\ UNCHANGED <<mutex, taskPc, taskCall, taskReg, dumped>>

\* Logger::resetStats()
ResetStatsCall ==
    /\ logOps < MaxLogOps
    /\ logger' = ResetStats(logger, Message(logCalls + 1))
    /\ logCalls' = logCalls + 1
    /\ logOps' = logOps + 1
    /\ lastOp' = [op |-> "resetStats", level |-> 0, k |-> 1]
    /\ LogKeeps
    /\ UNCHANGED <<mutex, taskPc, taskCall, taskReg, dumped>>

\* Logger::dumpRecentErrors()
DumpCall ==
    /\ logOps < MaxLogOps
    /\ dumped' = DumpRecentErrors(logger)
    /\ logOps' = logOps + 1
    /\ lastOp' = [op |-> "dumpRecentErrors", level |-> 0, k |-> 1]
    /\ LogKeeps
    /\ UNCHANGED <<logger, mutex, taskPc, taskCall, taskReg, logCalls>>

LogNext ==
    \/ \E level \in MessageLevels, k \in LogRuns : LogCall(level, k)
    \/ \E level \in RuntimeLevels : SetLevelCall(level)
    \/ ResetStatsCall
    \/ DumpCall

LogSpec == LogInit /\ [][LogNext]_vars

(***************************************************************************)
(* The logger called from several tasks: log, logWithLocation and          *)
(* resetStats, each a sequence of steps between which the other tasks run. *)
(***************************************************************************)
\* the calls a task makes: LOG_ERROR_TAG, LOG_INFO_TAG, LOG_DEBUG_TAG,
\* LOG_WARN_LOC, Logger::resetStats
TaskOps ==
    {[op |-> "log", level |-> LOG_LEVEL_ERROR],
     [op |-> "log", level |-> LOG_LEVEL_INFO],
     [op |-> "log", level |-> LOG_LEVEL_DEBUG],
     [op |-> "logWithLocation", level |-> LOG_LEVEL_WARN],
     [op |-> "resetStats", level |-> LOG_LEVEL_NONE]}

\* the positions between xSemaphoreTake and xSemaphoreGive
SectionPcs == {"print", "count", "buffer", "give", "zero", "resetGive"}

\* where log and logWithLocation go after the level check
AfterCheck(level) == IF Filtered(level, logger.runtimeLevel) THEN "idle" ELSE "take"

\* xSemaphoreTake that returns whether or not the mutex is free
CanTakeHeld(m) == TRUE

\* xSemaphoreTake(_mutex, portMAX_DELAY) returns once the mutex is free; the
\* callers skip it while _mutex is nullptr
CanTake(m) == m \in {MutexFree, MutexNull}

\* a task calls log, logWithLocation or resetStats; log and logWithLocation
\* return at once when the level is filtered
TaskCall(t, c) ==
    /\ taskPc[t] = "idle"
    /\ logCalls < MaxCalls
    /\ taskCall' = [taskCall EXCEPT ![t] = [op |-> c.op, level |-> c.level,
                                            msg |-> Message(logCalls + 1)]]
    /\ taskPc' = [taskPc EXCEPT ![t] = IF c.op = "resetStats" THEN "resetTake"
                                       ELSE AfterCheck(c.level)]
    /\ logCalls' = logCalls + 1
    /\ logOps' = logOps + 1
    /\ lastOp' = [op |-> c.op, level |-> c.level, k |-> 1]
    /\ LogKeeps
    /\ UNCHANGED <<logger, mutex, taskReg, dumped>>

\* xSemaphoreTake(_mutex, portMAX_DELAY)
TaskTake(t) ==
    /\ taskPc[t] \in {"take", "resetTake"}
    /\ CanTake(mutex)
    /\ mutex' = IF mutex = MutexNull THEN MutexNull ELSE t
    /\ taskPc' = [taskPc EXCEPT ![t] = IF @ = "take" THEN "print" ELSE "zero"]
    /\ LogKeeps
    /\ UNCHANGED <<logger, taskCall, taskReg, logCalls, logOps, lastOp, dumped>>

\* Serial.printf of the message, and updateStats reads the level's counter
TaskPrint(t) ==
    /\ taskPc[t] = "print"
    /\ logger' = SerialPrint(logger, taskCall[t].level, taskCall[t].msg)
    /\ taskReg' = [taskReg EXCEPT ![t] = StatOf(logger.stats, taskCall[t].level)]
    /\ taskPc' = [taskPc EXCEPT ![t] = "count"]
    /\ LogKeeps
    /\ UNCHANGED <<mutex, taskCall, logCalls, logOps, lastOp, dumped>>

\* updateStats writes the counter back, incremented
TaskCount(t) ==
    /\ taskPc[t] = "count"
    /\ logger' = [logger EXCEPT !.stats = SetStat(@, taskCall[t].level, taskReg[t] + 1)]
    /\ taskPc' = [taskPc EXCEPT ![t] = IF taskCall[t].level <= LOG_LEVEL_WARN
                                       THEN "buffer" ELSE "give"]
    /\ LogKeeps
    /\ UNCHANGED <<mutex, taskCall, taskReg, logCalls, logOps, lastOp, dumped>>

\* addToErrorBuffer(tag, buffer)
TaskBuffer(t) ==
    /\ taskPc[t] = "buffer"
    /\ logger' = AddToErrorBuffer(logger, taskCall[t].msg)
    /\ taskPc' = [taskPc EXCEPT ![t] = "give"]
    /\ LogKeeps
    /\ UNCHANGED <<mutex, taskCall, taskReg, logCalls, logOps, lastOp, dumped>>

\* resetStats zeroes the counters
TaskZero(t) ==
    /\ taskPc[t] = "zero"
    /\ logger' = ZeroedStats(logger)
    /\ taskPc' = [taskPc EXCEPT ![t] = "resetGive"]
    /\ LogKeeps
    /\ UNCHANGED <<mutex, taskCall, taskReg, logCalls, logOps, lastOp, dumped>>

\* xSemaphoreGive(_mutex); log and logWithLocation return, resetStats goes
\* on to LOG_INFO_TAG("LOGGER", "Statistics reset") and its level check
TaskGive(t) ==
    /\ taskPc[t] \in {"give", "resetGive"}
    /\ mutex' = IF mutex = MutexNull THEN MutexNull ELSE MutexFree
    /\ taskPc' = [taskPc EXCEPT ![t] = IF @ = "give" THEN "idle"
                                       ELSE AfterCheck(LOG_LEVEL_INFO)]
    /\ taskCall' = [taskCall EXCEPT ![t] = IF taskPc[t] = "give" THEN @
                                           ELSE [@ EXCEPT !.op = "log",
                                                          !.level = LOG_LEVEL_INFO]]
    /\ LogKeeps
    /\ UNCHANGED <<logger, taskReg, logCalls, logOps, lastOp, dumped>>

\* the steps of a call once it is made, the take apart
TaskRun(t) ==
    \/ TaskPrint(t)
    \/ TaskCount(t)
    \/ TaskBuffer(t)
    \/ TaskZero(t)
    \/ TaskGive(t)

LogTaskNext ==
    \/ \E t \in Tasks, c \in TaskOps : TaskCall(t, c)
    \/ \E t \in Tasks : TaskTake(t)
    \/ \E t \in Tasks : TaskRun(t)

LogTaskSpec == LogInit /\ [][LogTaskNext]_vars

\* The scheduler runs every ready task (the three tasks have the same
\* priority and block in vTaskDelay between their loop iterations), and a
\* task blocked in xSemaphoreTake is readied by each xSemaphoreGive.
LogFairSpec ==
    /\ LogTaskSpec
    /\ \A t \in Tasks : WF_vars(TaskRun(t)) /\ SF_vars(TaskTake(t))

(***************************************************************************)
(* networkLoop with what surrounds it: the Ethernet hardware, whose status *)
(* changes at any time, the UDP socket, where datagrams arrive, and the    *)
(* logger, which gets every log call of an iteration.  NetTask is the only *)
(* task created on core 0 (src/main.cpp line 142) and vTaskDelay returns,  *)
(* so an iteration that can run does run.                                  *)
(***************************************************************************)
\* datagrams that arrive: two frames for universe 129, one for another
\* universe, one with a bad start code, one shorter than the header
LoopDatagrams ==
    ShareDatagrams
    \cup {[size |-> 136, uni |-> DEFAULT_UNIVERSE, sc |-> 221, decl |-> 11, fill |-> 1],
          [size |-> 125, uni |-> DEFAULT_UNIVERSE, sc |-> DMX_STARTCODE, decl |-> 11, fill |-> 1]}

\* _runtimeLevel after Logger::begin: LOG_LEVEL as Logger.cpp sees it
\* (Logger.h's default), or as src/include/Config.h defines it when the
\* build hands it to every file
BuildLevels == {LOG_LEVEL, LOG_LEVEL_DEBUG}

LoopInit ==
    /\ DataPlaneInit([universe |-> DEFAULT_UNIVERSE, numLeds |-> 10,
                      ipAddress |-> DefaultIp, useDhcp |-> FALSE],
                     Fill(DMX_MAX_CHANNELS, 0))
    /\ UiAfterSetup
    /\ \E level \in BuildLevels :
          logger = [Begin(StaticLogger, Message(0)) EXCEPT !.runtimeLevel = level]
    /\ mutex = MutexFree
    /\ CallersIdle

\* what the surroundings of the loop leave alone
LoopKeeps ==
    UNCHANGED <<packetBuffer, e131Universe, localDmxBuffer, sharedDmxData,
                lastPacketTime, packetReceived, deviceConfig, radioStream, now, iters,
                sends, rx, parseRet, parseReads, logged, lastTx, streamMark, air, fault,
                uiVars, shareVars, logVars, lastHw>>

\* the chip disappears or comes back, the cable is pulled or plugged
HardwareChange(hardwareOk, linkOk) ==
    /\ iters < MaxIters
    /\ hw # [hardwareOk |-> hardwareOk, linkOk |-> linkOk]
    /\ hw' = [hardwareOk |-> hardwareOk, linkOk |-> linkOk]
    /\ pending' = pending
    /\ LoopKeeps

\* a datagram arrives at the socket
Arrive(d) ==
    /\ iters < MaxIters
    /\ pending = NoPacket
    /\ pending' = d
    /\ hw' = hw
    /\ LoopKeeps

\* one iteration of the for loop: checkHardware, then parsePacket on the
\* waiting datagram and what follows it, or the longer delay
NetworkLoop ==
    LET c == CheckHardwareCall(lastHw, hw.hardwareOk, hw.linkOk)
    IN /\ \/ /\ NetworkLoopReady(hw.hardwareOk, hw.linkOk, pending)
             /\ pending' = NoPacket
          \/ /\ NetworkLoopNotReady(hw.hardwareOk, hw.linkOk)
             /\ pending' = pending
       /\ lastHw' = c.last
       /\ hw' = hw
       /\ logger' = LogAll(logger, c.log \o logged', logCalls + 1)
       /\ logCalls' = logCalls + Len(c.log \o logged')
       /\ UNCHANGED <<mutex, taskPc, taskCall, taskReg, logOps, lastOp, dumped>>

LoopNext ==
    \/ \E hardwareOk \in BOOLEAN, linkOk \in BOOLEAN : HardwareChange(hardwareOk, linkOk)
    \/ \E d \in LoopDatagrams : Arrive(d)
    \/ NetworkLoop

LoopSpec == LoopInit /\ [][LoopNext]_vars

LoopFairSpec == LoopSpec /\ WF_vars(NetworkLoop)

(***************************************************************************)
(* The receiver's decode of one radio frame (specification section 4.2):   *)
(* marker, length, length payload bytes and checksum are read, then the    *)
(* checksum is verified over the marker and the payload as received, and   *)
(* the marker is compared with 0xAA.                                       *)
(***************************************************************************)
\* XOR of all the bytes of a sequence
RECURSIVE XorFold(_)
XorFold(bytes) ==
    IF Len(bytes) = 0 THEN 0
    ELSE IF Len(bytes) = 1 THEN bytes[1]
    ELSE LET mid == Len(bytes) \div 2
         IN BitXor(XorFold(SubSeq(bytes, 1, mid)),
                   XorFold(SubSeq(bytes, mid + 1, Len(bytes))))

Decode(frame) ==
    IF Len(frame) < 2 \/ Len(frame) < frame[2] + 3
    THEN [status |-> "Truncated", payload |-> <<>>]
    ELSE LET length == frame[2]
             payload == SubSeq(frame, 3, length + 2)
         IN IF XorFold(<<frame[1]>> \o payload) # frame[length + 3]
            THEN [status |-> "ChecksumMismatch", payload |-> <<>>]
            ELSE IF frame[1] # RADIO_START_BYTE
            THEN [status |-> "BadMarker", payload |-> <<>>]
            ELSE [status |-> "Ok", payload |-> payload]

(***************************************************************************)
(* What the claims speak about                                             *)
(***************************************************************************)
\* the last step was a loop iteration that pulled a datagram
Pulled == iters > 0 /\ rx # NoPacket

\* the step is a loop iteration that pulls a datagram
PullStep == iters' = iters + 1 /\ rx' # NoPacket

\* header fields of a datagram of at least 126 bytes, read off its bytes
WireUniverse(d) == (DatagramBytes[d][114] * 256) + DatagramBytes[d][115]
WireDeclared(d) == (DatagramBytes[d][124] * 256) + DatagramBytes[d][125]
WireStartCode(d) == DatagramBytes[d][126]

\* the three checks on the datagram d, for the expected universe u
SizeOk(d) == d.size >= 126
UniverseOk(d, u) == WireUniverse(d) = u
StartCodeOk(d) == WireStartCode(d) = 0
PassesChecks(d, u) == SizeOk(d) /\ UniverseOk(d, u) /\ StartCodeOk(d)

\* the bytes the last step appended to the radio stream
Appended == SubSeq(radioStream, streamMark + 1, Len(radioStream))

\* the payload handed to the last sendDmxPacket call
TxPayload == SubSeq(localDmxBuffer, 1, lastTx)

(***************************************************************************)
(* C1: a datagram of 1..125 bytes is rejected as too small: parsePacket    *)
(* returns 0, the output buffer is left as it was, and no byte of the      *)
(* packet buffer at or beyond the received size is read.                   *)
(***************************************************************************)
C1_TooSmallRejected ==
    [][(PullStep /\ rx'.size \in 1..125) =>
          /\ parseRet' = 0
          /\ logged' = <<LogTooSmall>>
          /\ localDmxBuffer' = localDmxBuffer
          /\ parseReads' <= rx'.size]_vars

\* a 125-byte datagram was rejected after an earlier frame had been accepted
C1_Witness ==
    /\ Pulled /\ rx.size = 125 /\ parseRet = 0 /\ logged = <<LogTooSmall>>
    /\ packetReceived

(***************************************************************************)
(* C2: a datagram of at least 126 bytes whose universe field differs from  *)
(* the configured universe makes parsePacket return 0 and changes neither  *)
(* the output buffer, nor the shared snapshot, nor the configuration, nor  *)
(* the radio stream.                                                       *)
(***************************************************************************)
C2_MismatchNoEffect ==
    [][(PullStep /\ SizeOk(rx') /\ ~UniverseOk(rx', e131Universe)) =>
          /\ parseRet' = 0
          /\ UNCHANGED <<localDmxBuffer, sharedDmxData, lastPacketTime,
                         packetReceived, deviceConfig, e131Universe, radioStream>>]_vars

\* a frame for another universe was dropped while a snapshot was published
C2_Witness ==
    /\ Pulled /\ SizeOk(rx) /\ ~UniverseOk(rx, e131Universe)
    /\ parseRet = 0 /\ packetReceived /\ radioStream # <<>>

(***************************************************************************)
(* C3: the first failing check decides, in the order size, universe, start *)
(* code: matching universe with a non-zero start code is rejected as a bad *)
(* start code, a wrong universe with a non-zero start code is rejected as  *)
(* a universe mismatch.                                                    *)
(***************************************************************************)
C3_CheckOrder ==
    Pulled =>
        /\ ~SizeOk(rx) => (parseRet = 0 /\ logged = <<LogTooSmall>>)
        /\ (SizeOk(rx) /\ ~UniverseOk(rx, e131Universe)) =>
               (parseRet = 0 /\ logged = <<LogUniverseMismatch>>)
        /\ (SizeOk(rx) /\ UniverseOk(rx, e131Universe) /\ ~StartCodeOk(rx)) =>
               (parseRet = 0 /\ logged = <<LogBadStartCode>>)
        /\ PassesChecks(rx, e131Universe) =>
               \A k \in 1..Len(logged) :
                   logged[k] \notin {LogTooSmall, LogUniverseMismatch, LogBadStartCode}

\* wrong universe and non-zero start code together: a universe mismatch
C3_Witness ==
    /\ Pulled /\ SizeOk(rx) /\ ~UniverseOk(rx, e131Universe) /\ ~StartCodeOk(rx)
    /\ logged = <<LogUniverseMismatch>>

(***************************************************************************)
(* C4: every datagram that passes the three checks yields                  *)
(* n = min(declared length - 1, 512), and the first n bytes of the output  *)
(* buffer are the datagram's bytes 126 .. 126+n-1.                         *)
(***************************************************************************)
C4_ExtractsDeclared ==
    (Pulled /\ PassesChecks(rx, e131Universe)) =>
        /\ parseRet = Min(WireDeclared(rx) - 1, 512)
        /\ \A i \in 0..(parseRet - 1) :
              /\ 126 + i < rx.size
              /\ At(localDmxBuffer, i) = At(DatagramBytes[rx], 126 + i)

(***************************************************************************)
(* C5: a datagram that passes the three checks but declares more channel   *)
(* bytes than it carries is rejected: parsePacket returns 0.               *)
(***************************************************************************)
C5_TruncatedRejected ==
    (Pulled /\ PassesChecks(rx, e131Universe)
            /\ 126 + WireDeclared(rx) - 1 > rx.size) =>
        parseRet = 0

(***************************************************************************)
(* C6: what parsePacket returns and delivers for a datagram does not       *)
(* depend on the datagrams received before it: it is what a handler that   *)
(* has received nothing yet returns and delivers.                          *)
(***************************************************************************)
C6_HistoryIndependent ==
    Pulled =>
        LET fresh == ParsePacket(Fill(E131_MAX_PACKET_SIZE, 0), localDmxBuffer,
                                 e131Universe, rx)
        IN /\ parseRet = fresh.ret
           /\ SubSeq(localDmxBuffer, 1, parseRet) = SubSeq(fresh.out, 1, fresh.ret)

(***************************************************************************)
(* C7: sendDmxPacket with a length above 255 writes no byte to the radio   *)
(* stream.                                                                 *)
(***************************************************************************)
C7_TooLargeWritesNothing ==
    lastTx > 255 => (Len(radioStream) = streamMark /\ air = <<>>)

\* a 256-byte payload was refused after a frame had been written
C7_Witness ==
    lastTx = 256 /\ sends = 2 /\ streamMark > 0 /\ Len(radioStream) = streamMark

(***************************************************************************)
(* C8: for a payload of length L in 0..255 sendDmxPacket appends exactly   *)
(* L+3 bytes: 0xAA, L, the payload in order, and the XOR of 0xAA and every *)
(* payload byte (the length byte is not folded in).                        *)
(***************************************************************************)
C8_FrameLayout ==
    lastTx \in 0..255 =>
        /\ Len(Appended) = lastTx + 3
        /\ Appended = <<170, lastTx>> \o TxPayload \o <<XorFold(<<170>> \o TxPayload)>>

\* a 255-byte payload was framed behind an earlier frame
C8_Witness ==
    lastTx = 255 /\ streamMark > 0 /\ Len(radioStream) = streamMark + 258

(***************************************************************************)
(* C9: decoding the bytes sendDmxPacket emits for a payload of length      *)
(* 0..255 succeeds and gives back the payload.                             *)
(***************************************************************************)
C9_RoundTrip ==
    lastTx \in 0..255 => Decode(Appended) = [status |-> "Ok", payload |-> TxPayload]

\* a 255-byte payload came back from decode
C9_Witness ==
    /\ lastTx = 255
    /\ Decode(Appended).status = "Ok"
    /\ Len(Decode(Appended).payload) = 255

(***************************************************************************)
(* C10: one flipped bit in the marker or in a payload byte of an emitted   *)
(* frame makes decode report ChecksumMismatch.                             *)
(***************************************************************************)
C10_BitFlipDetected ==
    (fault # <<>> /\ (fault[1] = 0 \/ fault[1] \in 2..(Len(air) - 2))) =>
        Decode(air).status = "ChecksumMismatch"

\* a bit of the marker of a 255-byte frame was flipped
C10_Witness ==
    /\ fault # <<>> /\ fault[1] = 0 /\ Len(air) = 258
    /\ Decode(air).status = "ChecksumMismatch"

\* the step is a button press / a run of displayLoop iterations / setup()
PressStep == presses' = presses + 1
DisplayStep == runs' = runs + 1
SetupStep == phase = "reset" /\ phase' = "run"

\* the UI is on a status page of the slideshow / on an edit screen
OnStatusPage == currentState \in {SCREEN_STATUS_IP, SCREEN_STATUS_E131, SCREEN_STATUS_SENSORS}
OnEditScreen == currentState \in {SCREEN_EDIT_UNIVERSE, SCREEN_EDIT_NUM_LEDS}

\* both bounded fields of a configuration are within their bounds
InBounds(cfg) == cfg.universe \in 1..63999 /\ cfg.numLeds \in 0..50

\* x moved one step up / down, staying put at the bound
StepUp(x, max) == IF x = max THEN x ELSE x + 1
StepDown(x, min) == IF x = min THEN x ELSE x - 1

(***************************************************************************)
(* C11: the new-data flag is cleared by the consumer's read: once          *)
(* displayLoop has read the shared state twice with no publication in      *)
(* between, the second read finds the flag false.                          *)
(***************************************************************************)
C11_SecondReadSeesNoUpdate ==
    (seen.valid /\ consumed >= 2) => seen.flag = FALSE

(***************************************************************************)
(* C12: whatever the interleaving of a publication with a reader on the    *)
(* other core, the reader finds both halves of the channel data, the       *)
(* timestamp and the flag written by the same publication.                 *)
(***************************************************************************)
C12_TupleAtomic ==
    seen.valid =>
        /\ seen.gen.head = seen.gen.tail
        /\ seen.gen.tail = seen.gen.stamp
        /\ seen.gen.stamp = seen.gen.flag

(***************************************************************************)
(* C13: once a frame of n channels is published, the shared snapshot is    *)
(* that frame's n bytes and nothing of an earlier frame: the bytes behind  *)
(* them are as they were at boot.                                          *)
(***************************************************************************)
C13_PublishReplaces ==
    (pc = "poll" /\ parseRet > 0 /\ gen.flag = iters) =>
        sharedDmxData = SubSeq(DatagramBytes[rx], 127, 126 + parseRet)
                        \o Fill(512 - parseRet, 0)

(***************************************************************************)
(* C14: from a configuration within bounds, an Up or Down press on an edit *)
(* screen leaves the configuration within bounds, moves the edited field   *)
(* by exactly one, or not at all at the bound in that direction, and       *)
(* changes no other field.                                                 *)
(***************************************************************************)
C14_MenuClamp ==
    [][(PressStep /\ OnEditScreen /\ lastButton' \in {BTN_UP, BTN_DOWN}
                  /\ InBounds(deviceConfig)) =>
          /\ InBounds(deviceConfig')
          /\ deviceConfig'.ipAddress = deviceConfig.ipAddress
          /\ deviceConfig'.useDhcp = deviceConfig.useDhcp
          /\ currentState = SCREEN_EDIT_UNIVERSE =>
                /\ deviceConfig'.numLeds = deviceConfig.numLeds
                /\ deviceConfig'.universe =
                      IF lastButton' = BTN_UP
                      THEN StepUp(deviceConfig.universe, 63999)
                      ELSE StepDown(deviceConfig.universe, 1)
          /\ currentState = SCREEN_EDIT_NUM_LEDS =>
                /\ deviceConfig'.universe = deviceConfig.universe
                /\ deviceConfig'.numLeds =
                      IF lastButton' = BTN_UP
                      THEN StepUp(deviceConfig.numLeds, 50)
                      ELSE StepDown(deviceConfig.numLeds, 0)]_vars

\* two Up presses on the universe screen from 63998: the first moved the
\* universe to 63999, the second was clamped
C14_Witness ==
    /\ currentState = SCREEN_EDIT_UNIVERSE /\ lastButton = BTN_UP /\ presses = 5
    /\ deviceConfig.universe = 63999 /\ deviceConfig.numLeds = 49

(***************************************************************************)
(* C15: in every state from boot onward, whatever the load returned and    *)
(* whatever buttons were pressed, universe is in 1..63999 and numLeds in   *)
(* 0..50.                                                                  *)
(***************************************************************************)
C15_ConfigInBounds ==
    phase = "run" => InBounds(deviceConfig)

(***************************************************************************)
(* C16: a press of any button on a status page opens the main menu with    *)
(* the selection at item 0 and does nothing else: configuration and        *)
(* expected universe are unchanged and nothing is saved.                   *)
(***************************************************************************)
C16_PressOpensMenu ==
    [][(PressStep /\ OnStatusPage) =>
          /\ currentState' = SCREEN_MENU_MAIN
          /\ menuIndex' = 0
          /\ saved' = <<>>
          /\ UNCHANGED <<deviceConfig, e131Universe>>]_vars

\* Select was the first press, made on the sensors page (the slideshow had
\* advanced twice)
C16_Witness ==
    /\ presses = 1 /\ lastButton = BTN_SEL /\ lastSlideshowTime = 6200
    /\ currentState = SCREEN_MENU_MAIN /\ menuIndex = 0

(***************************************************************************)
(* C17: Select in the main menu opens the first status page at index 0,    *)
(* the universe-edit screen at index 1, the LED-count-edit screen at index *)
(* 2; the configuration is unchanged and nothing is saved.                 *)
(***************************************************************************)
C17_MenuSelect ==
    [][(PressStep /\ currentState = SCREEN_MENU_MAIN /\ lastButton' = BTN_SEL) =>
          /\ menuIndex = 0 => currentState' = SCREEN_STATUS_IP
          /\ menuIndex = 1 => currentState' = SCREEN_EDIT_UNIVERSE
          /\ menuIndex = 2 => currentState' = SCREEN_EDIT_NUM_LEDS
          /\ menuIndex \in 0..2
          /\ saved' = <<>>
          /\ UNCHANGED deviceConfig]_vars

\* Select at index 2 opened the LED-count-edit screen
C17_Witness ==
    /\ lastButton = BTN_SEL /\ menuIndex = 2 /\ currentState = SCREEN_EDIT_NUM_LEDS
    /\ saved = <<>>

(***************************************************************************)
(* C18: Select on an edit screen calls save exactly once, with the whole   *)
(* current configuration, makes the validator's expected universe the      *)
(* configuration's universe and returns to the main menu; Up and Down on   *)
(* an edit screen call save zero times.                                    *)
(***************************************************************************)
C18_SelectCommits ==
    [][(PressStep /\ OnEditScreen) =>
          /\ lastButton' = BTN_SEL =>
                /\ saved' = <<deviceConfig>>
                /\ deviceConfig' = deviceConfig
                /\ e131Universe' = deviceConfig.universe
                /\ currentState' = SCREEN_MENU_MAIN
          /\ lastButton' \in {BTN_UP, BTN_DOWN} => saved' = <<>>]_vars

\* numLeds was raised to 50 with Up and committed: one save, with numLeds 50
C18_Witness ==
    /\ lastButton = BTN_SEL /\ currentState = SCREEN_MENU_MAIN /\ menuIndex = 2
    /\ Len(saved) = 1 /\ saved[1].numLeds = 50 /\ saved[1].universe = 63998
    /\ saved[1] = deviceConfig /\ e131Universe = 63998

(***************************************************************************)
(* C19: save is called only by a Select on an edit screen, never by        *)
(* another path, the load included; load is called exactly once, at        *)
(* startup.                                                                *)
(***************************************************************************)
C19_SaveOnlyFromCommit ==
    /\ saved # <<>> => (lastButton = BTN_SEL /\ currentState = SCREEN_MENU_MAIN)
    /\ phase = "run" => loads = 1

(***************************************************************************)
(* C19, amended: save is called only by a Select on an edit screen or,     *)
(* once, by the startup load when it finds nothing stored; load is called  *)
(* exactly once, at startup.                                               *)
(***************************************************************************)
C19_SaveFromCommitOrFirstBoot ==
    [][/\ (saved' # <<>> /\ ~SetupStep) =>
              (PressStep /\ OnEditScreen /\ lastButton' = BTN_SEL /\ Len(saved') = 1)
       /\ (saved' # <<>> /\ SetupStep) =>
              (loadRet' = "ESP_ERR_NVS_NOT_FOUND" /\ saved' = <<deviceConfig'>>)
       /\ loads' = IF SetupStep THEN 1 ELSE loads
       /\ phase' = "run" => loads' = 1]_vars

\* the load found nothing stored and saved; later an edit was committed
C19_Witness ==
    /\ loadRet = "ESP_ERR_NVS_NOT_FOUND" /\ loads = 1
    /\ lastButton = BTN_SEL /\ saved = <<deviceConfig>>

(***************************************************************************)
(* C20: when nothing is stored, the configuration in effect after the      *)
(* startup load is universe 129, numLeds 10, DHCP off, IP 192.168.0.100.   *)
(***************************************************************************)
C20_DefaultsWhenNothingStored ==
    (phase = "run" /\ loadRet = "ESP_ERR_NVS_NOT_FOUND" /\ presses = 0) =>
        deviceConfig = [universe |-> 129, numLeds |-> 10,
                        ipAddress |-> <<192, 168, 0, 100>>, useDhcp |-> FALSE]

(***************************************************************************)
(* C21: when the startup load fails with a read error other than "not      *)
(* found", the error is logged, setup goes on to the running state, and    *)
(* the configuration in memory is the defaults: universe 129, numLeds 10,  *)
(* DHCP off, IP 192.168.0.100.                                             *)
(***************************************************************************)
C21_ReadErrorFallsBack ==
    (loadRet = "ESP_ERR_NVS_INVALID_LENGTH" /\ presses = 0) =>
        /\ phase = "run"
        /\ logged = <<LogConfigReadError>>
        /\ deviceConfig = [universe |-> 129, numLeds |-> 10,
                           ipAddress |-> <<192, 168, 0, 100>>, useDhcp |-> FALSE]

(***************************************************************************)
(* C22: for a validated frame of len > 0 channels, networkLoop hands the   *)
(* radio framer the first min(3 * numLeds, len) bytes of the channel data  *)
(* (the framer writes them framed, or nothing when they exceed 255), and   *)
(* publishes all len bytes to the shared snapshot.                         *)
(***************************************************************************)
C22_ForwardTruncatedPublishFull ==
    (Pulled /\ parseRet > 0) =>
        /\ lastTx = Min(3 * deviceConfig.numLeds, parseRet)
        /\ Appended = IF lastTx > 255 THEN <<>>
                      ELSE <<170, lastTx>> \o SubSeq(localDmxBuffer, 1, lastTx)
                           \o <<XorFold(<<170>> \o SubSeq(localDmxBuffer, 1, lastTx))>>
        /\ SubSeq(sharedDmxData, 1, parseRet) = SubSeq(localDmxBuffer, 1, parseRet)
        /\ packetReceived

\* a frame of 512 channels with numLeds 10: 30 bytes forwarded, 512
\* published
C22_Witness ==
    /\ Pulled /\ rx.size = 640 /\ rx.decl = 513
    /\ parseRet = 512 /\ deviceConfig.numLeds = 10 /\ lastTx = 30
    /\ Len(Appended) = 33
    /\ sharedDmxData = SubSeq(DatagramBytes[rx], 127, 638)
    /\ sharedDmxData[31] # sharedDmxData[1]

(***************************************************************************)
(* C23: the status displayLoop computes is DISCONNECTED when the link is   *)
(* down; with the link up it is CONNECTED when no frame was ever           *)
(* published, ACTIVE when the last one was stamped less than 2500 ms ago,  *)
(* IDLE otherwise; so it is never ACTIVE or IDLE before the first frame.   *)
(***************************************************************************)
C23_StatusFromLastFrame ==
    [][DisplayStep =>
          netStatus' = IF ~linkUp' THEN STATUS_DISCONNECTED
                       ELSE IF gen.stamp = 0 THEN STATUS_CONNECTED
                       ELSE IF now' - lastPacketTime < 2500 THEN STATUS_ACTIVE
                       ELSE STATUS_IDLE]_vars

\* the messages of one level written to Serial since the counters were last
\* zeroed
EmittedSinceReset(level) ==
    Cardinality({i \in (logger.statsMark + 1)..Len(logger.out) :
                    logger.out[i].level = level})

\* a task between its xSemaphoreTake and its xSemaphoreGive
InSection(t) == taskPc[t] \in SectionPcs

(***************************************************************************)
(* C24: with log, logWithLocation and resetStats called from several tasks *)
(* after Logger::begin, at most one task is between take and give, the     *)
(* mutex is held exactly by the task that is, each counter equals the      *)
(* number of messages of its level written since the last reset whenever   *)
(* no call is in the section, and every call returns.                      *)
(***************************************************************************)
C24_LoggerThreadSafe ==
    /\ [](/\ \A t \in Tasks, u \in Tasks :
                (InSection(t) /\ InSection(u)) => t = u
          /\ \A t \in Tasks : InSection(t) <=> mutex = t
          /\ mutex = MutexFree =>
                \A level \in MessageLevels :
                    StatOf(logger.stats, level) = EmittedSinceReset(level))
    /\ \A t \in Tasks : (taskPc[t] # "idle") ~> (taskPc[t] = "idle")

\* task 1 is updating the error counter while task 2 waits for the mutex
\* with an error of its own
C24_Witness ==
    /\ taskPc[1] = "count" /\ mutex = 1 /\ taskCall[1].level = LOG_LEVEL_ERROR
    /\ taskPc[2] = "take" /\ taskCall[2].level = LOG_LEVEL_ERROR

\* the ERROR and WARN messages written to Serial so far, oldest first
EmittedErrors ==
    SelectSeq(logger.out, LAMBDA m : m.level \in {LOG_LEVEL_ERROR, LOG_LEVEL_WARN})

\* the last n elements of a sequence
LastOf(seq, n) == SubSeq(seq, Len(seq) - n + 1, Len(seq))

\* the message ids of a sequence of messages or of buffer entries
Ids(seq) == [i \in 1..Len(seq) |-> seq[i].id]

(***************************************************************************)
(* C25: after n emitted ERROR or WARN messages the error buffer holds the  *)
(* most recent min(n, 50) of them and nothing else, the write index is in  *)
(* 0..49, and dumpRecentErrors prints the held entries oldest first.       *)
(***************************************************************************)
C25_ErrorBufferKeepsLast50 ==
    LET n == Len(EmittedErrors)
        kept == Min(n, 50)
        valid == {i \in 1..50 : logger.errorBuffer[i].valid}
    IN /\ logger.errorBufferIndex \in 0..49
       /\ Cardinality(valid) = kept
       /\ {logger.errorBuffer[i].id : i \in valid} =
              {EmittedErrors[j].id : j \in (n - kept + 1)..n}
       /\ Ids(DumpRecentErrors(logger)) = Ids(LastOf(EmittedErrors, kept))
       /\ lastOp.op = "dumpRecentErrors" => dumped = DumpRecentErrors(logger)

\* 98 errors were logged and then dumped: the dump lists the last 50, from
\* the 49th to the 98th
C25_Witness ==
    /\ lastOp.op = "dumpRecentErrors" /\ Len(EmittedErrors) = 98
    /\ logger.errorBufferIndex = 48
    /\ Len(dumped) = 50 /\ dumped[1].id = 49 /\ dumped[50].id = 98

\* a step that calls log or logWithLocation
LogStep == logOps' = logOps + 1 /\ lastOp'.op = "log"

\* a step that calls setLevel
SetLevelStep == logOps' = logOps + 1 /\ lastOp'.op = "setLevel"

\* the messages the step wrote to Serial
Written == SubSeq(logger'.out, Len(logger.out) + 1, Len(logger'.out))

C26_VerboseWitness ==
    /\ logger.runtimeLevel = 5 /\ lastOp = [op |-> "log", level |-> 5, k |-> 1]
    /\ logger.out[Len(logger.out)] = [level |-> 5, id |-> logCalls]
    /\ logger.stats.verboseCount = 1

(***************************************************************************)
(* C30: in the main menu Up and Down keep the selection index in 0..2: Up  *)
(* at 0 and Down at 2 leave it unchanged, every other Up or Down moves it  *)
(* by exactly one, and the screen stays the main menu.                     *)
(***************************************************************************)
C30_MenuIndexSaturates ==
    [][(PressStep /\ currentState = SCREEN_MENU_MAIN
                  /\ lastButton' \in {BTN_UP, BTN_DOWN}) =>
          /\ menuIndex \in 0..2
          /\ menuIndex' = IF lastButton' = BTN_UP THEN StepDown(menuIndex, 0)
                          ELSE StepUp(menuIndex, 2)
          /\ currentState' = SCREEN_MENU_MAIN
          /\ saved' = <<>>
          /\ UNCHANGED deviceConfig]_vars

\* Down was pressed four times in the main menu: the index went to 2 and
\* stayed there
C30_Witness ==
    /\ currentState = SCREEN_MENU_MAIN /\ presses = 5 /\ lastButton = BTN_DOWN
    /\ menuIndex = 2

(***************************************************************************)
(* C27: the number of bytes networkLoop forwards for a frame follows the   *)
(* LED count as loaded at startup or last committed with Select: Up and    *)
(* Down presses not yet committed do not change it.                        *)
(***************************************************************************)
C27_ForwardCountFromCommitted ==
    (Pulled /\ parseRet > 0) => lastTx = Min(3 * committed.numLeds, parseRet)

(***************************************************************************)
(* C28: the screen state is changed only by a button press or by the       *)
(* slideshow, and a press made while in the slideshow leaves the UI in the *)
(* main menu at index 0 once handleButtonPress and any render running      *)
(* beside it have returned.                                                *)
(***************************************************************************)
C28_PressWinsOverSlideshow ==
    /\ [][currentState' # currentState =>
             (PressStep \/ renderPc = "store" \/ (renderPc = "idle" /\ DisplayStep))]_vars
    /\ []((presses = 1 /\ renderPc = "idle") =>
             (currentState = SCREEN_MENU_MAIN /\ menuIndex = 0))

\* the page after a status page
NextPage(page) ==
    CASE page = SCREEN_STATUS_IP -> SCREEN_STATUS_E131
      [] page = SCREEN_STATUS_E131 -> SCREEN_STATUS_SENSORS
      [] page = SCREEN_STATUS_SENSORS -> SCREEN_STATUS_IP

\* the page shown and the time of the last advance after k render ticks,
\* 100 ms apart, from time t: a tick advances the page when more than
\* 3000 ms have passed since the last advance
RECURSIVE AfterTicks(_, _, _, _)
AfterTicks(page, since, t, k) ==
    IF k = 0 THEN <<page, since>>
    ELSE LET tick == t + 100
             due == tick - since > 3000
             p == IF due THEN NextPage(page) ELSE page
             s == IF due THEN tick ELSE since
         IN IF p >= 0 /\ s >= 0 THEN AfterTicks(p, s, tick, k - 1) ELSE <<page, since>>

(***************************************************************************)
(* C29: on the status pages, render ticks alone move the screen IP ->      *)
(* link/universe -> sensors -> IP, one page at each tick that comes more   *)
(* than 3000 ms after the previous advance and at no other tick, and never *)
(* off the three status pages.                                             *)
(***************************************************************************)
C29_SlideshowAdvance ==
    [][(DisplayStep /\ OnStatusPage) =>
          /\ <<currentState', lastSlideshowTime'>> =
                AfterTicks(currentState, lastSlideshowTime, now, (now' - now) \div 100)
          /\ currentState' \in {SCREEN_STATUS_IP, SCREEN_STATUS_E131,
                                SCREEN_STATUS_SENSORS}]_vars

\* no button was pressed; the slideshow went round once and on: it is on the
\* link/universe page after its fourth advance
C29_Witness ==
    /\ presses = 0 /\ runs = 2 /\ now = 12400
    /\ currentState = SCREEN_STATUS_E131 /\ lastSlideshowTime = 12400

\* the UI is in the main menu or on an edit screen
InMenuOrEdit ==
    currentState \in {SCREEN_MENU_MAIN, SCREEN_EDIT_UNIVERSE, SCREEN_EDIT_NUM_LEDS}

(***************************************************************************)
(* C31: without a button press the UI stays where it is in the main menu   *)
(* and on the edit screens: no step of the display task changes the screen *)
(* state there, and the only step from there to a status page is Select on *)
(* menu item 0.                                                            *)
(***************************************************************************)
C31_NoTimeoutFromMenu ==
    [][InMenuOrEdit =>
          /\ ~PressStep => currentState' = currentState
          /\ currentState' \in {SCREEN_STATUS_IP, SCREEN_STATUS_E131,
                                SCREEN_STATUS_SENSORS} =>
                /\ PressStep /\ lastButton' = BTN_SEL
                /\ currentState = SCREEN_MENU_MAIN /\ menuIndex = 0]_vars

(***************************************************************************)
(* C32: a Left or Right press in the main menu or on an edit screen        *)
(* changes nothing: screen state, selection index, configuration and       *)
(* expected universe are as before, and save is not called.                *)
(***************************************************************************)
C32_LeftRightNoOp ==
    [][(PressStep /\ InMenuOrEdit /\ lastButton' \in {BTN_LEFT, BTN_RIGHT}) =>
          /\ UNCHANGED <<currentState, menuIndex, deviceConfig, e131Universe>>
          /\ saved' = <<>>]_vars

\* Right was pressed on the universe-edit screen after an uncommitted Up:
\* the edit is still there, the expected universe is the old one
C32_Witness ==
    /\ lastButton = BTN_RIGHT /\ currentState = SCREEN_EDIT_UNIVERSE /\ presses = 5
    /\ menuIndex = 1 /\ deviceConfig.universe = committed.universe + 1
    /\ e131Universe = committed.universe /\ saved = <<>>

\* the chip is present and the cable is plugged in
HardwareReady == hw.hardwareOk /\ hw.linkOk

\* the step is one iteration of networkLoop
LoopStep == iters' = iters + 1

\* d is a frame for the expected universe that carries at least one channel
ValidFrame(d) == PassesChecks(d, e131Universe) /\ WireDeclared(d) > 1

\* the last iteration took d from the socket, put the channels of the
\* configured LEDs on the radio as one frame that decodes, and published
\* every channel of the frame
Forwarded(d) ==
    /\ rx = d /\ parseRet > 0
    /\ Decode(Appended).status = "Ok"
    /\ Decode(Appended).payload = SubSeq(DatagramBytes[d], 127, 126 + Min(CHAN_PER_LED * deviceConfig.numLeds, parseRet))
    /\ packetReceived
    /\ SubSeq(sharedDmxData, 1, parseRet) = SubSeq(DatagramBytes[d], 127, 126 + parseRet)

(***************************************************************************)
(* C33: an iteration of networkLoop made while the hardware is not ready   *)
(* takes no datagram from the socket, reads nothing, transmits nothing and *)
(* publishes nothing; the loop can always make its next iteration; and a   *)
(* valid frame waiting in the socket is forwarded and published unless the *)
(* hardware stops being ready.                                             *)
(***************************************************************************)
C33_LoopKeepsPolling ==
    /\ [][(LoopStep /\ ~HardwareReady) =>
             /\ rx' = NoPacket /\ parseReads' = 0 /\ lastTx' = -1
             /\ UNCHANGED <<pending, packetBuffer, localDmxBuffer, radioStream,
                            sharedDmxData, lastPacketTime, packetReceived>>]_vars
    /\ [](iters < MaxIters => ENABLED <<NetworkLoop>>_vars)
    /\ \A d \in LoopDatagrams :
          (pending = d /\ ValidFrame(d)) ~> (Forwarded(d) \/ ~HardwareReady)

\* a frame waited in the socket through an iteration made with the cable
\* pulled, and was forwarded by the next one, after the cable was plugged
C33_Witness ==
    /\ iters = 2 /\ HardwareReady /\ pending = NoPacket
    /\ rx.decl = 11 /\ Forwarded(rx)
    /\ logCalls = 2 /\ lastHw = HardwareUp

\* what parsePacket finds wrong with the datagram d, if anything
Undersized(d) == d.size > 0 /\ ~SizeOk(d)
OtherUniverse(d) == SizeOk(d) /\ ~UniverseOk(d, e131Universe)
BadStartCode(d) == SizeOk(d) /\ UniverseOk(d, e131Universe) /\ ~StartCodeOk(d)

\* the step added the last message logged to the recent-error buffer, as a
\* warning
RecordedWarning ==
    /\ logger'.errorBuffer[logger.errorBufferIndex + 1].valid
    /\ logger'.errorBuffer[logger.errorBufferIndex + 1].id = logCalls'
    /\ logger'.errorBufferIndex = (logger.errorBufferIndex + 1) % LOG_ERROR_BUFFER_SIZE
    /\ logger'.stats.warnCount = logger.stats.warnCount + 1
    /\ logger'.stats.errorCount = logger.stats.errorCount

ProducerInitialised == phase = "run" /\ pc = "poll"

(***************************************************************************)
(* C35: once networkLoop has run its prologue, E131Handler::_universe is   *)
(* the universe loaded at startup or last committed with Select: Up and    *)
(* Down on the universe-edit screen leave it as it is, a frame is accepted *)
(* exactly when it is for the committed universe, and on every screen but  *)
(* the universe-edit screen it equals deviceConfig.universe.               *)
(***************************************************************************)
C35_ValidatorFollowsCommit ==
    /\ [](ProducerInitialised =>
             /\ e131Universe = committed.universe
             /\ currentState # SCREEN_EDIT_UNIVERSE => e131Universe = deviceConfig.universe)
    /\ [][(ProducerInitialised /\ currentState = SCREEN_EDIT_UNIVERSE
            /\ lastButton' \in {BTN_UP, BTN_DOWN} /\ presses' = presses + 1)
           => e131Universe' = e131Universe]_vars
    /\ [][(ProducerInitialised /\ LoopStep /\ rx' # NoPacket)
           => (parseRet' > 0 <=> PassesChecks(rx', committed.universe))]_vars

(***************************************************************************)
(* C36: with numLeds at most MAX_NUM_LEDS, every iteration of networkLoop  *)
(* calls sendDmxPacket with at most 150 bytes, the too-large rejection is  *)
(* never logged, and an iteration whose parsePacket returns len > 0        *)
(* appends exactly one complete frame to the serial stream: marker,        *)
(* length, the first min(3 * numLeds, len) channels, checksum.             *)
(***************************************************************************)
C36_ProducerFitsRadio ==
    [][(LoopStep /\ deviceConfig.numLeds <= MAX_NUM_LEDS) =>
          /\ lastTx' <= CHAN_PER_LED * MAX_NUM_LEDS
          /\ \A i \in 1..Len(logged') : logged'[i] # LogTooLarge
          /\ IF parseRet' > 0
             THEN /\ lastTx' = Min(CHAN_PER_LED * deviceConfig.numLeds, parseRet')
                  /\ Len(radioStream') = Len(radioStream) + lastTx' + 3
                  /\ SubSeq(radioStream', 1, Len(radioStream)) = radioStream
                  /\ Appended'[1] = RADIO_START_BYTE
                  /\ Appended'[2] = lastTx'
                  /\ Decode(Appended').status = "Ok"
                  /\ Decode(Appended').payload = SubSeq(localDmxBuffer', 1, lastTx')
             ELSE lastTx' = -1 /\ radioStream' = radioStream]_vars

\* 50 LEDs and a frame of 512 channels: 150 bytes were handed to the radio
\* and went out as one frame of 153 bytes that decodes
C36_Witness ==
    /\ deviceConfig.numLeds = MAX_NUM_LEDS /\ parseRet = DMX_MAX_CHANNELS
    /\ lastTx = 150 /\ Len(Appended) = 153
    /\ Decode(Appended).status = "Ok" /\ logged = <<>>

(***************************************************************************)
(* C37: for an accepted frame parsePacket returns min(declared length - 1, *)
(* 512), the subtraction made over the integers, and never more than       *)
(* declared length - 1: a declared length of 0 does not give 512 channels. *)
(***************************************************************************)
C37_NoWraparound ==
    [][(PullStep /\ PassesChecks(rx', e131Universe)) =>
          /\ parseRet' = Min(WireDeclared(rx') - 1, DMX_MAX_CHANNELS)
          /\ parseRet' <= WireDeclared(rx') - 1]_vars

(***************************************************************************)
(* C38: an iteration of networkLoop that receives a frame for the expected *)
(* universe with start code 0 and declared length 1 (no channel) gets      *)
(* len = 0 and does what it does for a rejected datagram: no call of       *)
(* sendDmxPacket, nothing written to the serial stream, sharedDmxData,     *)
(* lastPacketTime and packetReceived left as they were.                    *)
(***************************************************************************)
C38_ZeroChannelsIgnored ==
    [][(PullStep /\ PassesChecks(rx', e131Universe) /\ WireDeclared(rx') = 1) =>
          /\ parseRet' = 0 /\ lastTx' = -1
          /\ UNCHANGED <<radioStream, localDmxBuffer, sharedDmxData, lastPacketTime,
                         packetReceived>>]_vars

\* a frame of ten channels was forwarded and published at time 0, then a
\* frame with no channel arrived: the stream, the snapshot and the
\* timestamp are those of the first frame
C38_Witness ==
    /\ iters = 2 /\ PassesChecks(rx, e131Universe) /\ WireDeclared(rx) = 1
    /\ parseRet = 0 /\ lastTx = -1 /\ Appended = <<>>
    /\ deviceConfig.numLeds = 10 /\ Len(radioStream) = 13
    /\ packetReceived /\ lastPacketTime = 0 /\ now = 2 * LOOP_DELAY_MS
    /\ SubSeq(sharedDmxData, 1, 10) = SubSeq(localDmxBuffer, 1, 10)
    /\ sharedDmxData[1] = 1

\* the producer moves on from position p
Leaves(p) == pc = p /\ pc' # p

(***************************************************************************)
(* C39: for a frame with len > 0 networkLoop transmits, then copies the    *)
(* channels to sharedDmxData, then writes lastPacketTime, then sets        *)
(* packetReceived, each once and each step writing nothing but its own     *)
(* part; so whenever packetReceived is true, every part of the shared      *)
(* state has been written by an iteration no older than the one that set   *)
(* the flag.                                                               *)
(***************************************************************************)
C39_PublicationOrder ==
    /\ [][ /\ Leaves("poll") =>
                /\ pc' = "copy" /\ parseRet' > 0 /\ iters' = iters + 1
                /\ Len(radioStream') = Len(radioStream) + lastTx' + 3
                /\ UNCHANGED <<sharedDmxData, lastPacketTime, packetReceived>>
           /\ Leaves("copy") =>
                /\ pc' = "copyTail"
                /\ UNCHANGED <<radioStream, lastPacketTime, packetReceived, iters>>
           /\ Leaves("copyTail") =>
                /\ pc' = "stamp"
                /\ SubSeq(sharedDmxData', 1, parseRet) = SubSeq(localDmxBuffer, 1, parseRet)
                /\ UNCHANGED <<radioStream, lastPacketTime, packetReceived, iters>>
           /\ Leaves("stamp") =>
                /\ pc' = "flag" /\ lastPacketTime' = now
                /\ UNCHANGED <<radioStream, sharedDmxData, packetReceived, iters>>
           /\ Leaves("flag") =>
                /\ pc' = "poll" /\ packetReceived'
                /\ UNCHANGED <<radioStream, sharedDmxData, lastPacketTime, iters>>
           /\ pc' = pc =>
                UNCHANGED <<radioStream, sharedDmxData, lastPacketTime, packetReceived>>]_vars
    /\ [](packetReceived =>
             /\ gen.flag >= 1
             /\ gen.head >= gen.flag /\ gen.tail >= gen.flag /\ gen.stamp >= gen.flag)
    /\ [](pc = "poll" =>
             gen.head = gen.flag /\ gen.tail = gen.flag /\ gen.stamp = gen.flag)

\* the flag is true from the first frame, whose copy and timestamp are
\* complete, while the copy of the second frame is half done
C39_Witness ==
    /\ packetReceived /\ iters = 2 /\ pc = "copyTail"
    /\ gen = [head |-> 2, tail |-> 1, stamp |-> 1, flag |-> 1]
    /\ Len(radioStream) = 2 * (lastTx + 3)

\* the last step was Select on item 0 of the main menu: back on the IP page
Reentered == currentState = SCREEN_STATUS_IP /\ lastButton = BTN_SEL

(***************************************************************************)
(* C40: after Select on item 0 of the main menu the render ticks show the  *)
(* pages a slideshow timer restarted at that press gives: the IP page      *)
(* until a tick comes more than 3000 ms after the press, however long the  *)
(* UI stayed in the menu.                                                  *)
(***************************************************************************)
C40_TimerRestartsOnReentry ==
    [][(DisplayStep /\ Reentered) =>
          currentState' = AfterTicks(SCREEN_STATUS_IP, now, now, (now' - now) \div 100)[1]]_vars

====
